---------------------------- MODULE Spec2Model ----------------------------
(***************************************************************************)
(* Model of the ask-starknet Discord bot (packages/discord-bot):           *)
(*   - index.ts            main(), shutdown(), process-level triggers      *)
(*   - utils/commandLoader loadCommands                                    *)
(*   - utils/eventLoader   loadEvents          (src/unnamed/part_001)      *)
(*   - events/ready        readyEvent          (src/unnamed/part_002)      *)
(*   - events/interactionCreate (tail of scripts/deploy-commands.ts)       *)
(*   - commands/ask, help, status                                          *)
(*   - events/messageCreate                                                *)
(* Every `await` of the source is a suspension point: the call is issued   *)
(* by one action and its outcome (return or throw) is delivered by         *)
(* another, so other callbacks may run in between, as on the Node.js event *)
(* loop.  Code between two awaits runs atomically.                         *)
(***************************************************************************)
EXTENDS Integers, Sequences, FiniteSets, TLC

VARIABLES
    tokenSet,        \* process.env.DISCORD_TOKEN is non-empty
    mainPc,          \* position of main()
    cmdFiles,        \* candidate modules of the commands directory, in readdir order
    evFiles,         \* candidate modules of the events directory, in readdir order
    loadIdx,         \* index of the file the running loader is importing
    commands,        \* client.commands: command name -> file that registered it
    listeners,       \* listeners registered on the client
    sigListeners,    \* process.once('SIGINT'|'SIGTERM') listeners still registered
    uncaughtOn,      \* process.on('uncaughtException') registered
    queueManager,    \* client.queueManager is attached
    begun,           \* startup steps whose call has been issued
    finished,        \* startup steps whose await has completed
    clientState,     \* transport: "new" | "connecting" | "ready" | "destroyed"
    readyCount,      \* number of times the transport emitted 'ready'
    presenceCalls,   \* number of setPresence calls
    isShuttingDown,  \* client.isShuttingDown
    shutPc,          \* position of the (single running) shutdown()
    shutCode,        \* `code` argument of the running shutdown()
    shutTrigger,     \* what called the running shutdown()
    stopCalls,       \* number of qm.stopWorker() calls
    destroyCalls,    \* number of client.destroy() calls
    stopFailed,      \* qm.stopWorker() threw
    destroyFailed,   \* client.destroy() threw
    sigSent,         \* deliveries of each signal so far
    uncaughtSent,    \* uncaught exceptions raised so far
    procState,       \* "running" | "exited" | "killed"
    exitCode,        \* argument of process.exit, -1 while none
    exitBy,          \* which code path ended the process
    logs,            \* log entries written by the loaders and the process handlers
    unhandledOn,     \* process.on('unhandledRejection') registered
    req,             \* the inbound requests: interactions and messages
    jobs,            \* the queue: the jobs submitted so far, by id
    fnCall,          \* a call of one of the helper functions: its arguments
    fnRet            \* what that call returned

lifeVars == << tokenSet, mainPc, cmdFiles, evFiles, loadIdx, commands, listeners,
               sigListeners, uncaughtOn, queueManager, begun, finished,
               clientState, readyCount, presenceCalls, isShuttingDown, shutPc,
               shutCode, shutTrigger, stopCalls, destroyCalls, stopFailed,
               destroyFailed, sigSent, uncaughtSent, procState, exitCode, exitBy,
               logs, unhandledOn >>

bridgeVars == << req, jobs >>

pureVars == << fnCall, fnRet >>

vars == << lifeVars, bridgeVars, pureVars >>

----------------------------------------------------------------------------
(* Bounds of the model *)

MaxSignal == 2      \* deliveries of each of SIGINT, SIGTERM
MaxUncaught == 2    \* uncaught exceptions
MaxReady == 2       \* times the transport emits 'ready'

Signals == {"SIGINT", "SIGTERM"}

----------------------------------------------------------------------------
(* The modules the loaders find *)

NoName == ""

\* a module of the commands directory: whether its import succeeds, whether
\* the export has `data` and a callable `execute`, and data.name
CmdModule(file, importOk, hasData, hasExecute, name) ==
    [file |-> file, importOk |-> importOk, hasData |-> hasData,
     hasExecute |-> hasExecute, name |-> name]

\* a module of the events directory: import, callable `execute`, name, once
EvModule(file, importOk, hasExecute, name, once) ==
    [file |-> file, importOk |-> importOk, hasExecute |-> hasExecute,
     name |-> name, once |-> once]

askCommand    == CmdModule("ask.ts", TRUE, TRUE, TRUE, "ask")
helpCommand   == CmdModule("help.ts", TRUE, TRUE, TRUE, "help")
statusCommand == CmdModule("status.ts", TRUE, TRUE, TRUE, "status")

interactionCreateEvent == EvModule("interactionCreate.ts", TRUE, TRUE, "interactionCreate", FALSE)
messageCreateEvent     == EvModule("messageCreate.ts", TRUE, TRUE, "messageCreate", FALSE)
readyEvent             == EvModule("ready.ts", TRUE, TRUE, "ready", TRUE)

\* readdir order of the repository's own directories
RepoCommandFiles == << askCommand, helpCommand, statusCommand >>
RepoEventFiles   == << interactionCreateEvent, messageCreateEvent, readyEvent >>

\* modules a directory may also hold: one whose import throws, one whose
\* export has no callable execute, one without a name, and one that takes a
\* name another module has
brokenCommand    == CmdModule("broken.ts", FALSE, FALSE, FALSE, NoName)
noExecuteCommand == CmdModule("noexec.ts", TRUE, TRUE, FALSE, "status")
noNameCommand    == CmdModule("noname.ts", TRUE, TRUE, TRUE, NoName)
askAgainCommand  == CmdModule("ask2.ts", TRUE, TRUE, TRUE, "ask")

brokenEvent           == EvModule("broken.ts", FALSE, FALSE, NoName, FALSE)
noExecuteEvent        == EvModule("noexec.ts", TRUE, FALSE, "messageCreate", FALSE)
noNameEvent           == EvModule("noname.ts", TRUE, TRUE, NoName, FALSE)
interactionAgainEvent == EvModule("interactionCreate2.ts", TRUE, TRUE, "interactionCreate", FALSE)

\* what readdir may list for the commands and the events directory: the
\* repository's files, a bad module in first, middle and last position, and
\* two modules of one name
Directories ==
    { [cmd |-> RepoCommandFiles, ev |-> RepoEventFiles],
      [cmd |-> << brokenCommand, askCommand, helpCommand >>,
       ev  |-> << brokenEvent, interactionCreateEvent, messageCreateEvent >>],
      [cmd |-> << askCommand, noExecuteCommand, helpCommand >>,
       ev  |-> << interactionCreateEvent, noExecuteEvent, readyEvent >>],
      [cmd |-> << askCommand, helpCommand, noNameCommand >>,
       ev  |-> << interactionCreateEvent, messageCreateEvent, noNameEvent >>],
      [cmd |-> << askCommand, askAgainCommand, helpCommand >>,
       ev  |-> << interactionCreateEvent, interactionAgainEvent, messageCreateEvent >>] }

CommandNames == {"ask", "help", "status"}
NoFile == "-"
EmptyCommands == [n \in CommandNames |-> NoFile]

----------------------------------------------------------------------------
(* loadCommands / loadEvents: the body of one iteration of the for loop *)

\* RegisterCommand without the test for a callable execute
RegisterCommandNamed(reg, c) ==
    IF c.importOk /\ c.hasData /\ c.name # NoName
    THEN [reg EXCEPT ![c.name] = c.file]
    ELSE reg

\* commandLoader.ts 85-95: the registry after the candidate has been handled
RegisterCommand(reg, c) ==
    IF c.importOk /\ c.hasData /\ c.hasExecute /\ c.name # NoName
    THEN [reg EXCEPT ![c.name] = c.file]
    ELSE reg

\* eventLoader 81-90: the listeners after the candidate has been handled
RegisterEvent(ls, e) ==
    IF e.importOk /\ e.hasExecute /\ e.name # NoName
    THEN ls \cup {[event |-> e.name, once |-> e.once, handler |-> e.file]}
    ELSE ls

\* a log entry: log.<level>({ file }, msg)
Log(level, msg, file) == [level |-> level, msg |-> msg, file |-> file]

\* commandLoader.ts 85-98: what the loader logs for the candidate
CommandLog(c) ==
    IF ~c.importOk THEN Log("error", "Failed to load command", c.file)
    ELSE IF ~(c.hasData /\ c.hasExecute) THEN Log("warn", "Invalid command module", c.file)
    ELSE IF c.name = NoName THEN Log("warn", "Command missing name", c.file)
    ELSE Log("info", "Loaded command", c.file)

\* eventLoader 81-95: what the loader logs for the candidate
EventLog(e) ==
    IF ~e.importOk THEN Log("error", "Failed to load event", e.file)
    ELSE IF ~e.hasExecute \/ e.name = NoName THEN Log("warn", "Invalid event module", e.file)
    ELSE Log("info", "Loaded event", e.file)

\* index.ts 186-192: the inline client.once('ready', ...) listener
InlineReadyListener == [event |-> "ready", once |-> TRUE, handler |-> "index.ts"]

ReadyListeners == {l \in listeners : l.event = "ready"}

----------------------------------------------------------------------------
(* Process exit *)

Running == procState = "running"

\* process.exit(code) called from path `by`
ProcessExit(code, by) ==
    /\ procState' = "exited"
    /\ exitCode' = code
    /\ exitBy' = by

NoExit == UNCHANGED << procState, exitCode, exitBy >>

----------------------------------------------------------------------------
(* main() *)

\* MainStart without the token check
MainStartNoTokenCheck(built) ==
    /\ Running /\ mainPc = "start"
    /\ IF built
       THEN /\ mainPc' = "startWorker"
            /\ begun' = begun \cup {"worker"}
            /\ UNCHANGED finished
       ELSE /\ mainPc' = "readdirCommands"
            /\ begun' = begun \cup {"commands"}
            /\ finished' = finished \cup {"worker"}
    /\ NoExit
    /\ UNCHANGED << tokenSet, cmdFiles, evFiles, loadIdx, commands, listeners,
                    sigListeners, uncaughtOn, queueManager, clientState,
                    readyCount, presenceCalls, isShuttingDown, shutPc, shutCode,
                    shutTrigger, stopCalls, destroyCalls, stopFailed, destroyFailed, sigSent,
                    uncaughtSent >>
    /\ UNCHANGED << logs, unhandledOn, bridgeVars, pureVars >>

\* index.ts 121-172, the first turn of main(): token check, logger, client,
\* then the queue set-up of 142-162 (buildRedisConfig, the BotQueueManager).
\* When the set-up returns (built), startWorker is called and awaited.  When
\* it throws, as new URL (line 100) does on a REDIS_URL that is no URL, the
\* catch of 166 logs, startWorker is never called, and main goes on in the
\* same turn to loadCommands, which suspends at readdir
\* (commandLoader.ts 59-64).
MainStart(built) ==
    /\ Running /\ mainPc = "start"
    /\ IF ~tokenSet
       THEN /\ ProcessExit(1, "config")
            /\ mainPc' = "dead"
            /\ UNCHANGED << begun, finished >>
       ELSE IF built
       THEN /\ mainPc' = "startWorker"
            /\ begun' = begun \cup {"worker"}
            /\ UNCHANGED finished
            /\ NoExit
       ELSE /\ mainPc' = "readdirCommands"
            /\ begun' = begun \cup {"commands"}
            /\ finished' = finished \cup {"worker"}
            /\ NoExit
    /\ UNCHANGED << tokenSet, cmdFiles, evFiles, loadIdx, commands, listeners,
                    sigListeners, uncaughtOn, queueManager, clientState,
                    readyCount, presenceCalls, isShuttingDown, shutPc, shutCode,
                    shutTrigger, stopCalls, destroyCalls, stopFailed, destroyFailed, sigSent,
                    uncaughtSent >>
    /\ UNCHANGED << logs, unhandledOn, bridgeVars, pureVars >>

\* main() without the call of loadCommands: after startWorker it goes on to
\* loadEvents
StartWorkerReturnSkipCommands(ok) ==
    /\ Running /\ mainPc = "startWorker"
    /\ queueManager' = ok
    /\ finished' = finished \cup {"worker"}
    /\ begun' = begun \cup {"events"}
    /\ mainPc' = "readdirEvents"
    /\ NoExit
    /\ UNCHANGED << tokenSet, cmdFiles, evFiles, loadIdx, commands, listeners,
                    sigListeners, uncaughtOn, clientState, readyCount,
                    presenceCalls, isShuttingDown, shutPc, shutCode, shutTrigger,
                    stopCalls, destroyCalls, stopFailed, destroyFailed, sigSent, uncaughtSent >>
    /\ UNCHANGED << logs, unhandledOn, bridgeVars, pureVars >>

\* index.ts 163-172: startWorker returned (ok) or threw; loadCommands is called
\* and suspends at readdir (commandLoader.ts 59-64)
StartWorkerReturn(ok) ==
    /\ Running /\ mainPc = "startWorker"
    /\ queueManager' = ok
    /\ finished' = finished \cup {"worker"}
    /\ begun' = begun \cup {"commands"}
    /\ mainPc' = "readdirCommands"
    /\ NoExit
    /\ UNCHANGED << tokenSet, cmdFiles, evFiles, loadIdx, commands, listeners,
                    sigListeners, uncaughtOn, clientState, readyCount,
                    presenceCalls, isShuttingDown, shutPc, shutCode, shutTrigger,
                    stopCalls, destroyCalls, stopFailed, destroyFailed, sigSent, uncaughtSent >>
    /\ UNCHANGED << logs, unhandledOn, bridgeVars, pureVars >>

\* index.ts 180-206 after loadEvents returned with listeners ls: the inline
\* ready listener and the process listeners are registered, then client.login
\* is awaited
WireAndLogin(ls) ==
    /\ listeners' = ls \cup {InlineReadyListener}
    /\ unhandledOn' = TRUE
    /\ uncaughtOn' = TRUE
    /\ sigListeners' = Signals
    /\ finished' = finished \cup {"events"}
    /\ begun' = begun \cup {"login"}
    /\ clientState' = "connecting"
    /\ mainPc' = "login"

\* index.ts 172-179: loadCommands is over; loadEvents is called and suspends at
\* readdir (eventLoader 56-60)
BeginLoadEvents ==
    /\ finished' = finished \cup {"commands"}
    /\ begun' = begun \cup {"events"}
    /\ mainPc' = "readdirEvents"
    /\ loadIdx' = 0

\* commandLoader.ts 62-78: readdir threw (the loader returns) or listed the files
ReaddirCommandsReturn(ok) ==
    /\ Running /\ mainPc = "readdirCommands"
    /\ IF ok /\ Len(cmdFiles) > 0
       THEN /\ mainPc' = "importCommand"
            /\ loadIdx' = 1
            /\ UNCHANGED << begun, finished >>
       ELSE BeginLoadEvents
    /\ logs' = IF ok THEN logs
               ELSE logs \cup {Log("error", "Failed to read commands directory", "commands")}
    /\ NoExit
    /\ UNCHANGED << tokenSet, cmdFiles, evFiles, commands, listeners, sigListeners,
                    uncaughtOn, queueManager, clientState, readyCount,
                    presenceCalls, isShuttingDown, shutPc, shutCode, shutTrigger,
                    stopCalls, destroyCalls, stopFailed, destroyFailed, sigSent, uncaughtSent >>
    /\ UNCHANGED << unhandledOn, bridgeVars, pureVars >>

\* ImportCommandReturn with the try block around the loop, not inside it: an
\* import that throws ends loadCommands
ImportCommandReturnAbort ==
    /\ Running /\ mainPc = "importCommand"
    /\ commands' = RegisterCommand(commands, cmdFiles[loadIdx])
    /\ logs' = logs \cup {CommandLog(cmdFiles[loadIdx])}
    /\ IF loadIdx < Len(cmdFiles) /\ cmdFiles[loadIdx].importOk
       THEN /\ loadIdx' = loadIdx + 1
            /\ UNCHANGED << mainPc, begun, finished >>
       ELSE BeginLoadEvents
    /\ NoExit
    /\ UNCHANGED << tokenSet, cmdFiles, evFiles, listeners, sigListeners,
                    uncaughtOn, queueManager, clientState, readyCount,
                    presenceCalls, isShuttingDown, shutPc, shutCode, shutTrigger,
                    stopCalls, destroyCalls, stopFailed, destroyFailed, sigSent, uncaughtSent >>
    /\ UNCHANGED << unhandledOn, bridgeVars, pureVars >>

\* commandLoader.ts 78-99: the import of file loadIdx settled; the candidate is
\* validated and registered, and the next import is awaited
ImportCommandReturn ==
    /\ Running /\ mainPc = "importCommand"
    /\ commands' = RegisterCommand(commands, cmdFiles[loadIdx])
    /\ logs' = logs \cup {CommandLog(cmdFiles[loadIdx])}
    /\ IF loadIdx < Len(cmdFiles)
       THEN /\ loadIdx' = loadIdx + 1
            /\ UNCHANGED << mainPc, begun, finished >>
       ELSE BeginLoadEvents
    /\ NoExit
    /\ UNCHANGED << tokenSet, cmdFiles, evFiles, listeners, sigListeners,
                    uncaughtOn, queueManager, clientState, readyCount,
                    presenceCalls, isShuttingDown, shutPc, shutCode, shutTrigger,
                    stopCalls, destroyCalls, stopFailed, destroyFailed, sigSent, uncaughtSent >>
    /\ UNCHANGED << unhandledOn, bridgeVars, pureVars >>

\* eventLoader 58-74: readdir threw (the loader returns) or listed the files
ReaddirEventsReturn(ok) ==
    /\ Running /\ mainPc = "readdirEvents"
    /\ IF ok /\ Len(evFiles) > 0
       THEN /\ mainPc' = "importEvent"
            /\ loadIdx' = 1
            /\ UNCHANGED << begun, finished, listeners, uncaughtOn, sigListeners,
                            clientState, unhandledOn >>
       ELSE /\ WireAndLogin(listeners)
            /\ UNCHANGED loadIdx
    /\ logs' = IF ok THEN logs
               ELSE logs \cup {Log("error", "Failed to read events directory", "events")}
    /\ NoExit
    /\ UNCHANGED << tokenSet, cmdFiles, evFiles, commands, queueManager,
                    readyCount, presenceCalls, isShuttingDown, shutPc, shutCode,
                    shutTrigger, stopCalls, destroyCalls, stopFailed, destroyFailed, sigSent,
                    uncaughtSent >>
    /\ UNCHANGED << bridgeVars, pureVars >>

\* eventLoader 74-96, then index.ts 180-206 after the last file
ImportEventReturn ==
    /\ Running /\ mainPc = "importEvent"
    /\ IF loadIdx < Len(evFiles)
       THEN /\ listeners' = RegisterEvent(listeners, evFiles[loadIdx])
            /\ loadIdx' = loadIdx + 1
            /\ UNCHANGED << mainPc, begun, finished, uncaughtOn, sigListeners,
                            clientState, unhandledOn >>
       ELSE /\ WireAndLogin(RegisterEvent(listeners, evFiles[loadIdx]))
            /\ UNCHANGED loadIdx
    /\ logs' = logs \cup {EventLog(evFiles[loadIdx])}
    /\ NoExit
    /\ UNCHANGED << tokenSet, cmdFiles, evFiles, commands, queueManager,
                    readyCount, presenceCalls, isShuttingDown, shutPc, shutCode,
                    shutTrigger, stopCalls, destroyCalls, stopFailed, destroyFailed, sigSent,
                    uncaughtSent >>
    /\ UNCHANGED << bridgeVars, pureVars >>

\* index.ts 205-210: client.login resolved, or rejected and main calls exit(1)
LoginReturn(ok) ==
    /\ Running /\ mainPc = "login"
    /\ IF ok
       THEN /\ clientState \in {"connecting", "ready"}
            /\ mainPc' = "returned"
            /\ finished' = finished \cup {"login"}
            /\ NoExit
       ELSE /\ mainPc' = "dead"
            /\ ProcessExit(1, "login")
            /\ UNCHANGED finished
    /\ UNCHANGED << tokenSet, cmdFiles, evFiles, loadIdx, commands, listeners,
                    sigListeners, uncaughtOn, queueManager, begun, clientState,
                    readyCount, presenceCalls, isShuttingDown, shutPc, shutCode,
                    shutTrigger, stopCalls, destroyCalls, stopFailed, destroyFailed, sigSent,
                    uncaughtSent >>
    /\ UNCHANGED << logs, unhandledOn, bridgeVars, pureVars >>

----------------------------------------------------------------------------
(* The transport's ready signal *)

\* index.ts 186-192 and ready event 52-61: setPresence calls made by one
\* listener of 'ready' (client.user is set when the transport emits 'ready')
PresenceCallsOf(l) == 1

RECURSIVE SumPresence(_)
SumPresence(ls) ==
    IF ls = {} THEN 0
    ELSE LET l == CHOOSE x \in ls : TRUE
         IN PresenceCallsOf(l) + SumPresence(ls \ {l})

\* the transport emits 'ready': every registered listener runs; listeners
\* registered with once are removed (index.ts 186, eventLoader 86-90)
ReadyFire ==
    /\ Running /\ clientState \in {"connecting", "ready"}
    /\ readyCount < MaxReady
    /\ readyCount' = readyCount + 1
    /\ clientState' = "ready"
    /\ presenceCalls' = presenceCalls + SumPresence(ReadyListeners)
    /\ listeners' = {l \in listeners : ~(l.event = "ready" /\ l.once)}
    /\ NoExit
    /\ UNCHANGED << tokenSet, mainPc, cmdFiles, evFiles, loadIdx, commands,
                    sigListeners, uncaughtOn, queueManager, begun, finished,
                    isShuttingDown, shutPc, shutCode, shutTrigger, stopCalls,
                    destroyCalls, stopFailed, destroyFailed, sigSent, uncaughtSent >>
    /\ UNCHANGED << logs, unhandledOn, bridgeVars, pureVars >>

----------------------------------------------------------------------------
(* shutdown() *)

\* index.ts 215: the idempotency test
AlreadyShuttingDown == isShuttingDown

\* index.ts 221-222: there is a worker to stop
HasWorker == queueManager

\* index.ts 213-231 up to the first await: a call of shutdown(client, code)
Shutdown(code, trigger) ==
    IF AlreadyShuttingDown
    THEN UNCHANGED << isShuttingDown, shutPc, shutCode, shutTrigger, stopCalls,
                      destroyCalls >>
    ELSE /\ isShuttingDown' = TRUE
         /\ shutCode' = code
         /\ shutTrigger' = trigger
         /\ IF HasWorker
            THEN /\ shutPc' = "stopWorker"
                 /\ stopCalls' = stopCalls + 1
                 /\ UNCHANGED destroyCalls
            ELSE /\ shutPc' = "destroy"
                 /\ destroyCalls' = destroyCalls + 1
                 /\ UNCHANGED stopCalls

\* StopWorkerReturn with both steps in one try block: a throw of stopWorker
\* skips client.destroy and goes to process.exit
StopWorkerReturnOneTry(ok) ==
    /\ Running /\ shutPc = "stopWorker"
    /\ stopFailed' = ~ok
    /\ IF ok
       THEN /\ shutPc' = "destroy"
            /\ destroyCalls' = destroyCalls + 1
            /\ NoExit
       ELSE /\ shutPc' = "exit"
            /\ UNCHANGED destroyCalls
            /\ ProcessExit(shutCode, "shutdown")
    /\ UNCHANGED << tokenSet, mainPc, cmdFiles, evFiles, loadIdx, commands,
                    listeners, sigListeners, uncaughtOn, queueManager, begun,
                    finished, clientState, readyCount, presenceCalls,
                    isShuttingDown, shutCode, shutTrigger, stopCalls,
                    destroyFailed, sigSent, uncaughtSent >>
    /\ UNCHANGED << logs, unhandledOn, bridgeVars, pureVars >>

\* index.ts 223-231: stopWorker returned (ok) or threw; client.destroy is awaited
StopWorkerReturn(ok) ==
    /\ Running /\ shutPc = "stopWorker"
    /\ stopFailed' = ~ok
    /\ shutPc' = "destroy"
    /\ destroyCalls' = destroyCalls + 1
    /\ UNCHANGED destroyFailed
    /\ NoExit
    /\ UNCHANGED << tokenSet, mainPc, cmdFiles, evFiles, loadIdx, commands,
                    listeners, sigListeners, uncaughtOn, queueManager, begun,
                    finished, clientState, readyCount, presenceCalls,
                    isShuttingDown, shutCode, shutTrigger, stopCalls, sigSent,
                    uncaughtSent >>
    /\ UNCHANGED << logs, unhandledOn, bridgeVars, pureVars >>

\* index.ts 237: the status shutdown passes to process.exit
ShutdownExitCode == shutCode

\* index.ts 231-237: client.destroy returned (ok) or threw; process.exit(code)
DestroyReturn(ok) ==
    /\ Running /\ shutPc = "destroy"
    /\ clientState' = IF ok THEN "destroyed" ELSE clientState
    /\ destroyFailed' = ~ok
    /\ shutPc' = "exit"
    /\ ProcessExit(ShutdownExitCode, "shutdown")
    /\ UNCHANGED << tokenSet, mainPc, cmdFiles, evFiles, loadIdx, commands,
                    listeners, sigListeners, uncaughtOn, queueManager, begun,
                    finished, readyCount, presenceCalls, isShuttingDown,
                    shutCode, shutTrigger, stopCalls, destroyCalls, stopFailed,
                    sigSent, uncaughtSent >>
    /\ UNCHANGED << logs, unhandledOn, bridgeVars, pureVars >>

----------------------------------------------------------------------------
(* Process-level triggers *)

\* index.ts 201-202: a delivery of SIGINT or SIGTERM.  A listener registered
\* with process.once is removed when it runs; a signal with no listener has
\* its default disposition, which terminates the process.
Signal(s) ==
    /\ Running /\ sigSent[s] < MaxSignal
    /\ sigSent' = [sigSent EXCEPT ![s] = @ + 1]
    /\ IF s \in sigListeners
       THEN /\ sigListeners' = sigListeners \ {s}
            /\ Shutdown(0, s)
            /\ NoExit
       ELSE /\ procState' = "killed"
            /\ exitBy' = "signal"
            /\ UNCHANGED << exitCode, sigListeners, isShuttingDown, shutPc,
                            shutCode, shutTrigger, stopCalls, destroyCalls >>
    /\ UNCHANGED << tokenSet, mainPc, cmdFiles, evFiles, loadIdx, commands,
                    listeners, uncaughtOn, queueManager, begun, finished,
                    clientState, readyCount, presenceCalls, stopFailed, destroyFailed,
                    uncaughtSent >>
    /\ UNCHANGED << logs, unhandledOn, bridgeVars, pureVars >>

\* index.ts 197-200: an exception nobody caught.  With the listener registered
\* it calls shutdown(client, 1); before that the runtime ends the process with
\* status 1.
UncaughtException ==
    /\ Running /\ uncaughtSent < MaxUncaught
    /\ uncaughtSent' = uncaughtSent + 1
    /\ IF uncaughtOn
       THEN /\ logs' = logs \cup {Log("error", "Uncaught exception", "index.ts")}
            /\ Shutdown(1, "uncaughtException")
            /\ NoExit
       ELSE /\ ProcessExit(1, "uncaught")
            /\ UNCHANGED << logs, isShuttingDown, shutPc, shutCode, shutTrigger,
                            stopCalls, destroyCalls >>
    /\ UNCHANGED << tokenSet, mainPc, cmdFiles, evFiles, loadIdx, commands,
                    listeners, sigListeners, uncaughtOn, queueManager, begun,
                    finished, clientState, readyCount, presenceCalls,
                    stopFailed, destroyFailed, sigSent >>
    /\ UNCHANGED << unhandledOn, bridgeVars, pureVars >>

\* the process and client state the unhandledRejection listener leaves alone
settledVars == << tokenSet, mainPc, cmdFiles, evFiles, loadIdx, commands, listeners,
                  sigListeners, uncaughtOn, queueManager, begun, finished,
                  clientState, readyCount, presenceCalls, stopFailed, destroyFailed,
                  sigSent, uncaughtSent, unhandledOn >>

\* the listener of unhandledRejection treats it as uncaughtException is
\* treated: it logs and calls shutdown(client, 1)
OnUnhandledRejectionShutdown ==
    /\ logs' = logs \cup {Log("error", "Unhandled promise rejection", "index.ts")}
    /\ Shutdown(1, "unhandledRejection")
    /\ NoExit
    /\ UNCHANGED settledVars

\* index.ts 194-196: the listener of unhandledRejection logs the reason
OnUnhandledRejection ==
    /\ logs' = logs \cup {Log("error", "Unhandled promise rejection", "index.ts")}
    /\ NoExit
    /\ UNCHANGED << settledVars, isShuttingDown, shutPc, shutCode, shutTrigger,
                    stopCalls, destroyCalls >>

\* the promise of a listener's execute (eventLoader 87-89: void event.execute)
\* rejected and nobody handles it.  Without a listener of unhandledRejection
\* the runtime ends the process with status 1.
UnhandledRejection ==
    IF unhandledOn
    THEN OnUnhandledRejection
    ELSE /\ ProcessExit(1, "unhandledRejection")
         /\ UNCHANGED << settledVars, logs, isShuttingDown, shutPc, shutCode,
                         shutTrigger, stopCalls, destroyCalls >>

----------------------------------------------------------------------------
(* Texts, result payloads and the chunker *)

MaxReq == 2          \* inbound requests
MaxBeat == 1               \* sendTyping calls of a typing timer in flight at once
MaxSendFail == 2     \* chat sends the transport rejects, per request

DisplayCeiling == 4096     \* ask.ts 109, messageCreate.ts 135
AskChunkSize == 3800       \* ask.ts 67
MentionChunkSize == 1900   \* messageCreate.ts 71
FallbackLen == 19          \* length of 'No answer received.'

ReqIds == 1 .. MaxReq

Min(a, b) == IF a <= b THEN a ELSE b
Max(a, b) == IF a >= b THEN a ELSE b

\* A text is a range [lo, hi) of the characters of one field of one job's
\* result (field "fallback": the fixed string of pickAnswer); kind "object"
\* is a value that is not a string.
NoText == [kind |-> "none", job |-> 0, field |-> "none", lo |-> 0, hi |-> 0]
TextLen(t) == t.hi - t.lo

\* String.prototype.slice(a, b) for 0 <= a, 0 <= b
Slice(t, a, b) ==
    LET from == Min(a, TextLen(t))
        to   == Min(b, TextLen(t))
    IN [t EXCEPT !.lo = t.lo + from, !.hi = t.lo + Max(from, to)]

\* String.prototype.slice(a)
SliceFrom(t, a) == Slice(t, a, TextLen(t))

\* ask.ts 67-71, messageCreate.ts 71-75: the chunks pushed from index i on
RECURSIVE ChunksFrom(_, _, _)
ChunksFrom(text, size, i) ==
    IF i < TextLen(text)
    THEN << Slice(text, i, i + size) >> \o ChunksFrom(text, size, i + size)
    ELSE << >>

\* toChunks without the last, shorter chunk
toChunksWhole(text, size) ==
    ChunksFrom(Slice(text, 0, (TextLen(text) \div size) * size), size, 0)

toChunks(text, size) == ChunksFrom(text, size, 0)

\* a field of a result payload: undefined (the field is not there), null, a
\* string of length len, or a value that is not a string
Absent == [kind |-> "absent", len |-> 0]
Null   == [kind |-> "null", len |-> 0]
Str(n) == [kind |-> "string", len |-> n]
Obj    == [kind |-> "object", len |-> 0]

\* a result that is an object with these fields
Payload(a, o, m, d) ==
    [nil |-> FALSE, answer |-> a, output |-> o, message |-> m, data |-> d]

\* a result that is null or undefined
NullResult ==
    [nil |-> TRUE, answer |-> Absent, output |-> Absent, message |-> Absent,
     data |-> Absent]

\* result?.f
Optional(result, f) == IF result.nil THEN Absent ELSE result[f]

\* what ?? takes for missing: null and undefined
Nullish(v) == v.kind \in {"absent", "null"}

\* what || takes for missing: null, undefined and the empty string
Falsy(v) == Nullish(v) \/ (v.kind = "string" /\ v.len = 0)

\* the result payloads the queue may deliver: a short answer, an answer of
\* exactly the display ceiling, an answer longer than the display ceiling
\* (one chunk at either chunk size) that shadows an output, an answer whose
\* rest is one character more than a chunk of /ask, an object under data, and
\* an empty payload
Payloads ==
    { Payload(Str(17), Absent, Absent, Absent),
      Payload(Str(DisplayCeiling), Absent, Absent, Absent),
      Payload(Str(DisplayCeiling + 904), Str(17), Absent, Absent),
      Payload(Str(DisplayCeiling + AskChunkSize + 1), Absent, Absent, Absent),
      Payload(Absent, Absent, Absent, Obj),
      Payload(Absent, Absent, Absent, Absent) }

FieldOrder == << "answer", "output", "message", "data" >>

\* the fixed string 'No answer received.'
Fallback ==
    [kind |-> "string", job |-> 0, field |-> "fallback", lo |-> 0, hi |-> FallbackLen]

\* the value of field f of the result of job `job`
FieldValue(job, result, f) ==
    [kind |-> result[f].kind, job |-> job, field |-> f, lo |-> 0, hi |-> result[f].len]

\* pickAnswer with || in place of ??: an empty string counts as missing
pickAnswerFalsy(job, result) ==
    LET present == {i \in 1 .. Len(FieldOrder) : ~Falsy(Optional(result, FieldOrder[i]))}
    IN IF present = {}
       THEN Fallback
       ELSE FieldValue(job, result,
                       FieldOrder[CHOOSE i \in present : \A j \in present : i <= j])

\* ask.ts 57-65, messageCreate.ts 61-69: the ?? chain
pickAnswer(job, result) ==
    LET present == {i \in 1 .. Len(FieldOrder) : ~Nullish(Optional(result, FieldOrder[i]))}
    IN IF present = {}
       THEN Fallback
       ELSE FieldValue(job, result,
                       FieldOrder[CHOOSE i \in present : \A j \in present : i <= j])

----------------------------------------------------------------------------
(* The helper functions called on their own *)

MaxLen == 8     \* length of the texts toChunks is given
MaxSize == 4    \* chunk sizes toChunks is given

NoFn == [fn |-> "none", text |-> NoText, size |-> 0, result |-> NullResult]
NoRet == [done |-> FALSE, chunks |-> << >>, picked |-> NoText]

\* a text of n characters
Text(n) == [kind |-> "string", job |-> 0, field |-> "text", lo |-> 0, hi |-> n]

\* the calls of toChunks: every length and size up to the bounds, and the
\* sizes of the program around one and two chunks
ToChunksCalls ==
    { [fn |-> "toChunks", text |-> Text(n), size |-> sz, result |-> NullResult] :
        n \in 0 .. MaxLen, sz \in 1 .. MaxSize }
    \cup
    { [fn |-> "toChunks", text |-> Text(n), size |-> sz, result |-> NullResult] :
        n \in {904, MentionChunkSize, MentionChunkSize + 1, AskChunkSize, AskChunkSize + 1},
        sz \in {MentionChunkSize, AskChunkSize} }

\* what a field of a result may hold
FieldValues == {Absent, Null, Str(0), Str(MaxLen), Obj}

\* the calls of pickAnswer: no result, and every filling of the four fields
PickAnswerCalls ==
    { [fn |-> "pickAnswer", text |-> NoText, size |-> 0, result |-> r] :
        r \in {NullResult} \cup
              {Payload(a, o, m, d) : a \in FieldValues, o \in FieldValues,
                                     m \in FieldValues, d \in FieldValues} }

\* ask.ts 67-71: toChunks(text, size) is called and returns
ToChunksCall ==
    /\ fnCall.fn = "toChunks" /\ ~fnRet.done
    /\ fnRet' = [done |-> TRUE, chunks |-> toChunks(fnCall.text, fnCall.size),
                 picked |-> NoText]
    /\ UNCHANGED << lifeVars, bridgeVars, fnCall >>

\* ask.ts 57-65: pickAnswer(result) is called and returns
PickAnswerCall ==
    /\ fnCall.fn = "pickAnswer" /\ ~fnRet.done
    /\ fnRet' = [done |-> TRUE, chunks |-> << >>, picked |-> pickAnswer(1, fnCall.result)]
    /\ UNCHANGED << lifeVars, bridgeVars, fnCall >>

----------------------------------------------------------------------------
(* Errors *)

\* a thrown value: its name, and whether its message includes 'timed out'
Err(kind, name, saysTimedOut) ==
    [kind |-> kind, name |-> name, saysTimedOut |-> saysTimedOut]

NoQueueError     == Err("NoQueue", "Error", FALSE)        \* ask.ts 88

\* what a rejected chat send and a failed addJob throw: the message is the
\* transport's or the queue's, and may include 'timed out'
TransportError(saysTimedOut)   == Err("Transport", "DiscordAPIError", saysTimedOut)
QueueUnavailable(saysTimedOut) == Err("QueueUnavailable", "Error", saysTimedOut)
AwaitTimeout     == Err("AwaitTimeout", "TimeoutError", TRUE)
TypeError        == Err("TypeError", "TypeError", FALSE)

\* ask.ts 125: the catch block takes the error for a timeout
IsTimeoutError(err) == err.saysTimedOut \/ err.name = "TimeoutError"

----------------------------------------------------------------------------
(* A request: one interaction (slash command) or one message *)

\* what a chat send carries: a fixed text, or an embed or a plain chunk with
\* the text range in `text`
MsgUnknown          == "Unknown command."
MsgCommandError     == "There was an error executing this command."
MsgTimedOut         == "Request timed out. Try again."
MsgProcessing       == "Error while processing the question."
MsgMentionError     == "Error processing your question. Try /ask."
MsgNeedQuestion     == "Provide a question after mentioning me."
MsgQueueUnavailable == "Queue is unavailable. Use /ask instead."
MsgTextOnly         == "I can only respond in text channels."
EmbedAnswer         == "embed: Answer"
EmbedHelp           == "embed: Ask Starknet Bot - Help"
EmbedStatus         == "embed: Bot Status"
Chunk               == "content: chunk"

\* a call and whether it was admissible when it was made
NoCall == [op |-> "none", by |-> "none", what |-> "none", text |-> NoText,
           adm |-> TRUE]
Call(op, by, what, text) ==
    [op |-> op, by |-> by, what |-> what, text |-> text, adm |-> TRUE]

\* what execute reads of a message: the author is a bot, client.user is set,
\* the bot is mentioned, the content is non-empty once the mentions are
\* stripped, the channel has a send function
Message(bot, me, mentioned, question, canSend) ==
    [bot |-> bot, me |-> me, mentioned |-> mentioned, question |-> question,
     canSend |-> canSend]

NoMessage == Message(FALSE, FALSE, FALSE, FALSE, FALSE)

\* the operations of the queue manager the handlers call
QueueOps == {"addJob", "wait", "getMetrics"}

\* what one invocation of a listener keeps to itself: where it is suspended,
\* the call it awaits, its job, its answer, its loop index, its timer
NoInvocation ==
    [k |-> "idle", pend |-> NoCall, job |-> 0, answer |-> NoText, nextChunk |-> 0,
     typer |-> FALSE, awaited |-> "none", raised |-> FALSE, rejected |-> FALSE]

\* a request: the interaction or message, which the listeners of its event
\* share, the invocation of the first listener, and in twin the invocation of
\* a second listener of the same event
FreshReq ==
    [kind |-> "none",      \* "slash" | "message"
     cmd |-> "none",       \* interaction.commandName
     k |-> "idle",         \* where the code is suspended; "done" when over
     pend |-> NoCall,      \* the call being awaited
     deferred |-> FALSE,   \* interaction.deferred
     replied |-> FALSE,    \* interaction.replied
     sent |-> << >>,       \* the chat sends settled so far, in order
     job |-> 0,            \* id of the job this request submitted
     answer |-> NoText,    \* pickAnswer(result)
     nextChunk |-> 0,      \* index of the follow-up chunk being sent
     typer |-> FALSE,      \* the typing interval is set
     invoked |-> {},       \* command handlers whose execute was called
     awaited |-> "none",   \* first outcome of waitForJobCompletion
     msg |-> NoMessage,    \* what execute reads of the message
     thrown |-> {},        \* kinds of the errors a handler caught or let go
     raised |-> FALSE,     \* command.execute rejected
     rejected |-> FALSE,   \* the listener's promise rejected
     fails |-> 0,          \* chat sends the transport rejected
     calls |-> << >>,      \* the queue operations called so far, in order
     twin |-> NoInvocation, \* the invocation of a second listener
     beat |-> 0]           \* sendTyping calls of the typing timer not yet settled

\* the invocation of the first listener, and the request seen from the
\* invocation of the second one
Invocation(q) ==
    [k |-> q.k, pend |-> q.pend, job |-> q.job, answer |-> q.answer,
     nextChunk |-> q.nextChunk, typer |-> q.typer, awaited |-> q.awaited,
     raised |-> q.raised, rejected |-> q.rejected]
Swap(q) ==
    [q EXCEPT !.k = q.twin.k, !.pend = q.twin.pend, !.job = q.twin.job,
              !.answer = q.twin.answer, !.nextChunk = q.twin.nextChunk,
              !.typer = q.twin.typer, !.awaited = q.twin.awaited,
              !.raised = q.twin.raised, !.rejected = q.twin.rejected,
              !.twin = Invocation(q)]

\* the invocations of a request, and the request as invocation slot sees it
Slots == {1, 2}
Focus(q, slot) == IF slot = 1 THEN q ELSE Swap(q)

\* the reply latch of an interaction
LatchSet(q) == q.deferred \/ q.replied

InitialOps == {"reply", "deferReply"}
LaterOps == {"editReply", "followUp"}
ChatOps == InitialOps \cup LaterOps \cup {"messageReply", "channelSend", "sendTyping"}

\* discord.js takes an initial response only while the latch is unset, an
\* edit or a follow-up only once it is set; it tests this when the call is made
Admissible(q, op) ==
    /\ op \in InitialOps => ~LatchSet(q)
    /\ op \in LaterOps => LatchSet(q)

Issue(q, k, call) ==
    [q EXCEPT !.k = k, !.pend = [call EXCEPT !.adm = Admissible(q, call.op)],
              !.calls = IF call.op \in QueueOps THEN Append(@, call.op) ELSE @]
Finish(q) == [q EXCEPT !.k = "done", !.pend = NoCall]
Reject(q) == [q EXCEPT !.k = "done", !.pend = NoCall, !.rejected = TRUE]
Caught(q, err) == [q EXCEPT !.thrown = @ \cup {err.kind}]

\* a send settled: it is logged, and a send that succeeded sets the latch
Settle(q, ok) ==
    [q EXCEPT !.sent = Append(@, [op |-> q.pend.op, by |-> q.pend.by,
                                  what |-> q.pend.what, text |-> q.pend.text,
                                  latch |-> LatchSet(q), ok |-> ok]),
              !.deferred = @ \/ (ok /\ q.pend.op = "deferReply"),
              !.replied = @ \/ (ok /\ q.pend.op \in {"reply", "editReply"}),
              !.fails = IF ok THEN @ ELSE @ + 1]

----------------------------------------------------------------------------
(* events/interactionCreate: the dispatcher *)

\* the dispatcher always picks the initial reply
DispatchCatchAlwaysReply(q) ==
    Issue(q, "dispatchError", Call("reply", "dispatcher", MsgCommandError, NoText))

\* deploy-commands.ts 214-222: command.execute rejected
DispatchCatch(q) ==
    IF q.deferred \/ q.replied
    THEN Issue(q, "dispatchError", Call("followUp", "dispatcher", MsgCommandError, NoText))
    ELSE Issue(q, "dispatchError", Call("reply", "dispatcher", MsgCommandError, NoText))

\* deploy-commands.ts 202-214: the awaited command.execute rejected
HandlerRejected(q) == DispatchCatch([q EXCEPT !.raised = TRUE])

\* deploy-commands.ts 203-213: command.execute resolved; the dispatch is logged
HandlerReturned(q) == Finish(q)

\* the dispatcher says nothing for a command it does not know
DispatchUnknownSilent(q) == Finish(q)

\* deploy-commands.ts 194-200: no command of that name is registered
DispatchUnknown(q) ==
    IF ~q.replied /\ ~q.deferred
    THEN Issue(q, "unknownReply", Call("reply", "dispatcher", MsgUnknown, NoText))
    ELSE Finish(q)

----------------------------------------------------------------------------
(* commands/help, commands/status *)

\* help.ts 63-90
HelpExecute(q) == Issue(q, "helpReply", Call("reply", "help", EmbedHelp, NoText))

\* status.ts 73-93: with a queue manager its metrics are awaited first
StatusExecute(q, qm) ==
    IF qm
    THEN Issue(q, "statusMetrics", Call("getMetrics", "status", "none", NoText))
    ELSE Issue(q, "statusReply", Call("reply", "status", EmbedStatus, NoText))

\* status.ts 91-114: the metrics came or the error was ignored
StatusAfterMetrics(q) ==
    Issue(q, "statusReply", Call("reply", "status", EmbedStatus, NoText))

----------------------------------------------------------------------------
(* commands/ask *)

\* ask.ts 122-133: the catch block of execute
AskCatch(q, err) ==
    LET message == IF IsTimeoutError(err) THEN MsgTimedOut ELSE MsgProcessing
        q1 == Caught(q, err)
    IN IF q.deferred \/ q.replied
       THEN Issue(q1, "askCatch", Call("editReply", "ask", message, NoText))
       ELSE Issue(q1, "askCatch", Call("reply", "ask", message, NoText))

\* ask.ts 85-91: up to the await of deferReply
AskExecute(q, qm) ==
    IF ~qm
    THEN AskCatch(q, NoQueueError)
    ELSE Issue(q, "askDefer", Call("deferReply", "ask", "defer", NoText))

\* AskAfterAddJob awaiting the first job of the queue, whoever submitted it
AskAfterAddJobFirstId(q, ok, id, saysTimedOut) ==
    IF ok
    THEN Issue([q EXCEPT !.job = 1], "askWait", Call("wait", "ask", "none", NoText))
    ELSE AskCatch(q, QueueUnavailable(saysTimedOut))

\* ask.ts 95-104, 122-133: addJob returned the job, or threw an error whose
\* message includes 'timed out' or does not
AskAfterAddJob(q, ok, id, saysTimedOut) ==
    IF ok
    THEN Issue([q EXCEPT !.job = id], "askWait", Call("wait", "ask", "none", NoText))
    ELSE AskCatch(q, QueueUnavailable(saysTimedOut))

\* AskChunks with the whole answer chunked, not only what the embed left out
AskChunksAll(answer) == toChunks(answer, AskChunkSize)

\* ask.ts 117-120: the follow-up chunks of an answer
AskChunks(answer) == toChunks(SliceFrom(answer, DisplayCeiling), AskChunkSize)

\* AskAfterWait with a retry: after a timeout the job is awaited again
AskAfterWaitRetry(q, timedOut, result) ==
    IF timedOut
    THEN Issue(q, "askWait", Call("wait", "ask", "none", NoText))
    ELSE LET answer == pickAnswer(q.job, result)
             q1 == [q EXCEPT !.answer = answer]
         IN IF answer.kind # "string"
            THEN AskCatch(q1, TypeError)
            ELSE Issue(q1, "askEdit",
                       Call("editReply", "ask", EmbedAnswer, Slice(answer, 0, DisplayCeiling)))

\* ask.ts 104-116: waitForJobCompletion returned result, or threw the timeout
AskAfterWait(q, timedOut, result) ==
    IF timedOut
    THEN AskCatch(q, AwaitTimeout)
    ELSE LET answer == pickAnswer(q.job, result)
             q1 == [q EXCEPT !.answer = answer]
         IN IF answer.kind # "string"
            THEN AskCatch(q1, TypeError)
            ELSE Issue(q1, "askEdit",
                       Call("editReply", "ask", EmbedAnswer, Slice(answer, 0, DisplayCeiling)))

\* AskAfterChunk with a loop that goes on after a follow-up was rejected
AskAfterChunkKeepGoing(q, ok, saysTimedOut) ==
    IF q.nextChunk < Len(AskChunks(q.answer))
    THEN Issue([q EXCEPT !.nextChunk = @ + 1], "askFollowUp",
               Call("followUp", "ask", Chunk, AskChunks(q.answer)[q.nextChunk + 1]))
    ELSE HandlerReturned(q)

\* ask.ts 118-133: the follow-up of chunk q.nextChunk settled; a rejection
\* goes to the catch with the error the transport threw
AskAfterChunk(q, ok, saysTimedOut) ==
    IF ~ok THEN AskCatch(q, TransportError(saysTimedOut))
    ELSE IF q.nextChunk < Len(AskChunks(q.answer))
    THEN Issue([q EXCEPT !.nextChunk = @ + 1], "askFollowUp",
               Call("followUp", "ask", Chunk, AskChunks(q.answer)[q.nextChunk + 1]))
    ELSE HandlerReturned(q)

\* ask.ts 91-133: a chat send of execute settled (q is the request after it);
\* saysTimedOut is whether the message of a rejection includes 'timed out'
AskAfterSend(q, ok, saysTimedOut) ==
    CASE q.k = "askDefer" ->
           IF ok THEN Issue(q, "askAddJob", Call("addJob", "ask", "none", NoText))
           ELSE AskCatch(q, TransportError(saysTimedOut))
      [] q.k = "askEdit" ->
           IF ~ok THEN AskCatch(q, TransportError(saysTimedOut))
           ELSE IF TextLen(q.answer) <= DisplayCeiling THEN HandlerReturned(q)
           ELSE IF Len(AskChunks(q.answer)) = 0 THEN HandlerReturned(q)
           ELSE Issue([q EXCEPT !.nextChunk = 1], "askFollowUp",
                      Call("followUp", "ask", Chunk, AskChunks(q.answer)[1]))
      [] q.k = "askFollowUp" -> AskAfterChunk(q, ok, saysTimedOut)
      [] q.k = "askCatch" ->
           IF ok THEN HandlerReturned(q) ELSE HandlerRejected(q)

----------------------------------------------------------------------------
(* events/messageCreate: the mention-triggered handler *)

\* the messages that reach execute
MessageShapes ==
    {Message(bot, me, mentioned, question, canSend) :
       bot \in BOOLEAN, me \in BOOLEAN, mentioned \in BOOLEAN,
       question \in BOOLEAN, canSend \in BOOLEAN}

\* messageCreate.ts 149-154: the outer catch block
MentionCatch(q, err) ==
    Issue(Caught(q, err), "mCatch",
          Call("messageReply", "mention", MsgMentionError, NoText))

\* the inner try without its finally block
MentionNoFinally(q) == q

\* messageCreate.ts 146-148: the finally block
MentionFinally(q) == [q EXCEPT !.typer = FALSE]

\* MentionExecute without the test for a bot author
MentionExecuteAnswersBots(q, qm) ==
    IF ~q.msg.me THEN Finish(q)
    ELSE IF ~q.msg.mentioned THEN Finish(q)
    ELSE IF ~q.msg.question
    THEN Issue(q, "mEarlyReply", Call("messageReply", "mention", MsgNeedQuestion, NoText))
    ELSE IF ~qm
    THEN Issue(q, "mEarlyReply", Call("messageReply", "mention", MsgQueueUnavailable, NoText))
    ELSE IF ~q.msg.canSend
    THEN Issue(q, "mEarlyReply", Call("messageReply", "mention", MsgTextOnly, NoText))
    ELSE Issue(q, "mTyping", Call("sendTyping", "mention", "typing", NoText))

\* messageCreate.ts 81-114: up to the first await
MentionExecute(q, qm) ==
    IF q.msg.bot THEN Finish(q)
    ELSE IF ~q.msg.me THEN Finish(q)
    ELSE IF ~q.msg.mentioned THEN Finish(q)
    ELSE IF ~q.msg.question
    THEN Issue(q, "mEarlyReply", Call("messageReply", "mention", MsgNeedQuestion, NoText))
    ELSE IF ~qm
    THEN Issue(q, "mEarlyReply", Call("messageReply", "mention", MsgQueueUnavailable, NoText))
    ELSE IF ~q.msg.canSend
    THEN Issue(q, "mEarlyReply", Call("messageReply", "mention", MsgTextOnly, NoText))
    ELSE Issue(q, "mTyping", Call("sendTyping", "mention", "typing", NoText))

\* messageCreate.ts 121-130, 149-153: addJob returned the job, or threw; the
\* catch does not read the error
MentionAfterAddJob(q, ok, id, saysTimedOut) ==
    IF ok
    THEN Issue([q EXCEPT !.job = id], "mWait", Call("wait", "mention", "none", NoText))
    ELSE MentionCatch(MentionFinally(q), QueueUnavailable(saysTimedOut))

\* messageCreate.ts 141-144: the follow-up chunks of an answer
MentionChunks(answer) == toChunks(SliceFrom(answer, DisplayCeiling), MentionChunkSize)

\* MentionAfterWait submitting the question again when the await timed out
MentionAfterWaitResubmit(q, timedOut, result) ==
    IF timedOut
    THEN Issue(q, "mAddJob", Call("addJob", "mention", "none", NoText))
    ELSE LET answer == pickAnswer(q.job, result)
             q1 == [q EXCEPT !.answer = answer]
         IN IF answer.kind # "string"
            THEN MentionCatch(MentionFinally(q1), TypeError)
            ELSE Issue(q1, "mReply",
                       Call("messageReply", "mention", EmbedAnswer,
                            Slice(answer, 0, DisplayCeiling)))

\* messageCreate.ts 130-138: waitForJobCompletion returned result, or threw
MentionAfterWait(q, timedOut, result) ==
    IF timedOut
    THEN MentionCatch(MentionFinally(q), AwaitTimeout)
    ELSE LET answer == pickAnswer(q.job, result)
             q1 == [q EXCEPT !.answer = answer]
         IN IF answer.kind # "string"
            THEN MentionCatch(MentionFinally(q1), TypeError)
            ELSE Issue(q1, "mReply",
                       Call("messageReply", "mention", EmbedAnswer,
                            Slice(answer, 0, DisplayCeiling)))

\* messageCreate.ts 97-154: a chat send of execute settled; the catch does
\* not read the error of a rejection
MentionAfterSend(q, ok, saysTimedOut) ==
    CASE q.k = "mEarlyReply" ->
           IF ok THEN Finish(q) ELSE MentionCatch(q, TransportError(saysTimedOut))
      [] q.k = "mTyping" ->
           IF ok
           THEN Issue([q EXCEPT !.typer = TRUE], "mAddJob",
                      Call("addJob", "mention", "none", NoText))
           ELSE MentionCatch(q, TransportError(saysTimedOut))
      [] q.k = "mReply" ->
           IF ~ok THEN MentionCatch(MentionFinally(q), TransportError(saysTimedOut))
           ELSE IF TextLen(q.answer) > DisplayCeiling /\ Len(MentionChunks(q.answer)) > 0
           THEN Issue([q EXCEPT !.nextChunk = 1], "mSend",
                      Call("channelSend", "mention", Chunk, MentionChunks(q.answer)[1]))
           ELSE Finish(MentionFinally(q))
      [] q.k = "mSend" ->
           IF ~ok THEN MentionCatch(MentionFinally(q), TransportError(saysTimedOut))
           ELSE IF q.nextChunk < Len(MentionChunks(q.answer))
           THEN Issue([q EXCEPT !.nextChunk = @ + 1], "mSend",
                      Call("channelSend", "mention", Chunk,
                           MentionChunks(q.answer)[q.nextChunk + 1]))
           ELSE Finish(MentionFinally(q))
      [] q.k = "mCatch" -> Finish(q)

----------------------------------------------------------------------------
(* The requests at work *)

AskKs == {"askDefer", "askEdit", "askFollowUp", "askCatch"}
MentionKs == {"mEarlyReply", "mTyping", "mReply", "mSend", "mCatch"}

\* the modules whose execute is that of the ask command
AskFiles == {askCommand.file, askAgainCommand.file}

\* client.commands.get(name)
Lookup(name) == IF name \in DOMAIN commands THEN commands[name] ELSE NoFile

HasListener(event) == \E l \in listeners : l.event = event

\* an invocation suspended at an await holds nothing: the event loop runs
\* whichever listener or continuation is ready, whatever the others wait for
EventLoopHeld(r) == Running /\ \A p \in ReqIds \ {r} : req[p].pend.op # "wait"

EventLoopFree(r) == Running

\* eventLoader 86-90: a listener runs whenever the client emits its event;
\* the code tests neither that login was called nor that the client is
\* ready.  Requests arrive in the order of their ids.
CanArrive(r) ==
    /\ EventLoopFree(r)
    /\ req[r].k = "idle"
    /\ \A p \in ReqIds : p < r => req[p].k # "idle"

\* the listeners registered for an event
Listening(event) == Cardinality({l \in listeners : l.event = event})

\* the emitter calls every listener of the event in turn, each running up to
\* its first await: a second listener runs on what the first one left
Twice(event) == Listening(event) >= 2

\* deploy-commands.ts 186-202: one run of the dispatcher up to its first
\* await
Dispatch(q, chatInput) ==
    LET file == Lookup(q.cmd)
        run == [q EXCEPT !.invoked = @ \cup {file}]
    IN IF ~chatInput THEN Finish(q)
       ELSE IF file = NoFile THEN DispatchUnknown(q)
       ELSE IF file \in AskFiles THEN AskExecute(run, queueManager)
       ELSE IF file = "help.ts" THEN HelpExecute(run)
       ELSE StatusExecute(run, queueManager)

\* interactionCreate fires: every module registered for it runs the
\* dispatcher.  cmd is the command name, chatInput whether the interaction is
\* a slash command.
InteractionCreate(r, cmd, chatInput) ==
    /\ CanArrive(r) /\ HasListener("interactionCreate")
    /\ LET q == [req[r] EXCEPT !.kind = IF chatInput THEN "slash" ELSE "component",
                               !.cmd = cmd]
           first == Dispatch(q, chatInput)
       IN req' = [req EXCEPT ![r] =
                    IF Twice("interactionCreate")
                    THEN Swap(Dispatch(Swap(first), chatInput))
                    ELSE first]
    /\ UNCHANGED << jobs, lifeVars, pureVars >>

\* messageCreate.ts 80: messageCreate fires; execute runs up to its first await
MessageCreate(r, shape) ==
    /\ CanArrive(r) /\ HasListener("messageCreate")
    /\ LET q == [req[r] EXCEPT !.kind = "message", !.msg = shape]
           first == MentionExecute(q, queueManager)
       IN req' = [req EXCEPT ![r] =
                    IF Twice("messageCreate")
                    THEN Swap(MentionExecute(Swap(first), queueManager))
                    ELSE first]
    /\ UNCHANGED << jobs, lifeVars, pureVars >>

\* what the code does once a chat send has settled
AfterSend(q, ok, saysTimedOut) ==
    CASE q.k \in {"unknownReply", "dispatchError"} ->
           IF ok THEN Finish(q) ELSE Reject(q)
      [] q.k \in {"helpReply", "statusReply"} ->
           IF ok THEN HandlerReturned(q) ELSE HandlerRejected(q)
      [] q.k \in AskKs -> AskAfterSend(q, ok, saysTimedOut)
      [] q.k \in MentionKs -> MentionAfterSend(q, ok, saysTimedOut)

\* the transport settles the chat send an invocation of request r awaits: it
\* delivers it (ok) or rejects it with an error whose message includes
\* 'timed out' (saysTimedOut) or does not
SendReturn(r, ok, saysTimedOut) ==
    /\ EventLoopFree(r) /\ (ok => ~saysTimedOut)
    /\ \E slot \in Slots :
          LET q0 == Focus(req[r], slot)
          IN /\ q0.pend.op \in ChatOps
             /\ ok => q0.pend.adm
             /\ ~ok => (q0.fails < MaxSendFail \/ ~q0.pend.adm)
             /\ LET q == AfterSend(Settle(q0, ok), ok, saysTimedOut)
                IN /\ req' = [req EXCEPT ![r] = Focus(q, slot)]
                   /\ IF q.rejected THEN UnhandledRejection ELSE UNCHANGED lifeVars
    /\ UNCHANGED << jobs, pureVars >>

\* status.ts 85-93: getMetrics returned or threw; either way the reply is sent
GetMetricsReturn(r, ok) ==
    /\ EventLoopFree(r)
    /\ \E slot \in Slots :
          LET q0 == Focus(req[r], slot)
          IN /\ q0.pend.op = "getMetrics"
             /\ req' = [req EXCEPT ![r] = Focus(StatusAfterMetrics(q0), slot)]
    /\ UNCHANGED << jobs, lifeVars, pureVars >>

\* messageCreate.ts 115-117: the typing timer fires while it is set; its
\* callback calls channel.sendTyping() and awaits nothing
TypingTick(r) ==
    /\ EventLoopFree(r)
    /\ \E slot \in Slots : Focus(req[r], slot).typer
    /\ req[r].beat < MaxBeat
    /\ req' = [req EXCEPT ![r].beat = @ + 1]
    /\ UNCHANGED << jobs, lifeVars, pureVars >>

\* messageCreate.ts 116: a sendTyping of the timer settled; .catch(() => {})
\* swallows its rejection
TypingReturn(r, ok) ==
    /\ EventLoopFree(r)
    /\ req[r].beat > 0
    /\ req' = [req EXCEPT ![r].beat = @ - 1]
    /\ UNCHANGED << jobs, lifeVars, pureVars >>

----------------------------------------------------------------------------
(* The queue, as the handlers see it *)

NoPayload == NullResult

\* submit: the queue stores the job and assigns its id
QueueAdd(q, r) == Append(q, [owner |-> r, status |-> "queued", result |-> NoPayload])

\* the queue reports the job completed
Completed(j) == jobs[j].status = "completed"

\* ask.ts 95 / messageCreate.ts 121: addJob returned the job, or threw an
\* error whose message includes 'timed out' (saysTimedOut) or does not
AddJobReturn(r, ok, saysTimedOut) ==
    /\ EventLoopFree(r) /\ (ok => ~saysTimedOut)
    /\ \E slot \in Slots :
          LET q0 == Focus(req[r], slot)
              id == Len(jobs) + 1
          IN /\ q0.pend.op = "addJob"
             /\ req' = [req EXCEPT ![r] =
                          Focus(IF q0.kind = "slash"
                                THEN AskAfterAddJob(q0, ok, id, saysTimedOut)
                                ELSE MentionAfterAddJob(q0, ok, id, saysTimedOut), slot)]
             /\ jobs' = IF ok THEN QueueAdd(jobs, r) ELSE jobs
    /\ UNCHANGED << lifeVars, pureVars >>

\* the worker completes job j with a result
JobComplete(j, result) ==
    /\ Running
    /\ j \in 1 .. Len(jobs) /\ ~Completed(j)
    /\ jobs' = [jobs EXCEPT ![j] = [@ EXCEPT !.status = "completed", !.result = result]]
    /\ UNCHANGED << req, lifeVars, pureVars >>

FirstOutcome(q, what) == [q EXCEPT !.awaited = IF @ = "none" THEN what ELSE @]

\* ask.ts 104 / messageCreate.ts 130: waitForJobCompletion returns the result
\* of the completed job
WaitReturn(r) ==
    /\ EventLoopFree(r)
    /\ \E slot \in Slots :
          LET q0 == Focus(req[r], slot)
              q == FirstOutcome(q0, "result")
          IN /\ q0.pend.op = "wait" /\ Completed(q0.job)
             /\ req' = [req EXCEPT ![r] =
                          Focus(IF q.kind = "slash"
                                THEN AskAfterWait(q, FALSE, jobs[q0.job].result)
                                ELSE MentionAfterWait(q, FALSE, jobs[q0.job].result),
                                slot)]
    /\ UNCHANGED << jobs, lifeVars, pureVars >>

\* timeoutMs elapsed before the job completed: waitForJobCompletion throws, and
\* the job stays in the queue
WaitTimeout(r) ==
    /\ EventLoopFree(r)
    /\ \E slot \in Slots :
          LET q0 == Focus(req[r], slot)
              q == FirstOutcome(q0, "timeout")
          IN /\ q0.pend.op = "wait" /\ ~Completed(q0.job)
             /\ req' = [req EXCEPT ![r] =
                          Focus(IF q.kind = "slash"
                                THEN AskAfterWait(q, TRUE, NoPayload)
                                ELSE MentionAfterWait(q, TRUE, NoPayload), slot)]
    /\ UNCHANGED << jobs, lifeVars, pureVars >>

CommandInputs == {"ask", "help", "status", "bogus"}

\* the ids a job can get: every invocation submits at most one
JobIds == 1 .. (MaxReq * Cardinality(Slots))

\* the bot as main() leaves it when startup went through and the transport
\* is ready; the queue worker started or failed to start
InitBridge ==
    /\ tokenSet = TRUE
    /\ mainPc = "returned"
    /\ cmdFiles = RepoCommandFiles
    /\ evFiles = RepoEventFiles
    /\ loadIdx = Len(RepoEventFiles)
    /\ commands = [n \in CommandNames |->
                     IF n = "ask" THEN "ask.ts"
                     ELSE IF n = "help" THEN "help.ts" ELSE "status.ts"]
    /\ listeners = { [event |-> "interactionCreate", once |-> FALSE,
                      handler |-> "interactionCreate.ts"],
                     [event |-> "messageCreate", once |-> FALSE,
                      handler |-> "messageCreate.ts"] }
    /\ sigListeners = Signals
    /\ uncaughtOn = TRUE
    /\ queueManager \in BOOLEAN
    /\ begun = {"worker", "commands", "events", "login"}
    /\ finished = {"worker", "commands", "events", "login"}
    /\ clientState = "ready"
    /\ readyCount = 1
    /\ presenceCalls = 2
    /\ isShuttingDown = FALSE
    /\ shutPc = "idle"
    /\ shutCode = 0
    /\ shutTrigger = "none"
    /\ stopCalls = 0
    /\ destroyCalls = 0
    /\ stopFailed = FALSE
    /\ destroyFailed = FALSE
    /\ sigSent = [s \in Signals |-> 0]
    /\ uncaughtSent = 0
    /\ procState = "running"
    /\ exitCode = -1
    /\ exitBy = "none"
    /\ logs = {CommandLog(RepoCommandFiles[i]) : i \in 1 .. Len(RepoCommandFiles)}
                \cup {EventLog(RepoEventFiles[i]) : i \in 1 .. Len(RepoEventFiles)}
    /\ unhandledOn = TRUE
    /\ req = [r \in ReqIds |-> FreshReq]
    /\ jobs = << >>
    /\ fnCall = NoFn
    /\ fnRet = NoRet

NextBridge ==
    \/ \E r \in ReqIds, cmd \in CommandInputs, chatInput \in BOOLEAN :
          InteractionCreate(r, cmd, chatInput)
    \/ \E r \in ReqIds, shape \in MessageShapes : MessageCreate(r, shape)
    \/ \E r \in ReqIds, ok \in BOOLEAN, saysTimedOut \in BOOLEAN : SendReturn(r, ok, saysTimedOut)
    \/ \E r \in ReqIds, ok \in BOOLEAN : GetMetricsReturn(r, ok)
    \/ \E r \in ReqIds, ok \in BOOLEAN, saysTimedOut \in BOOLEAN : AddJobReturn(r, ok, saysTimedOut)
    \/ \E j \in JobIds, result \in Payloads : JobComplete(j, result)
    \/ \E r \in ReqIds : WaitReturn(r)
    \/ \E r \in ReqIds : WaitTimeout(r)
    \/ \E r \in ReqIds : TypingTick(r)
    \/ \E r \in ReqIds, ok \in BOOLEAN : TypingReturn(r, ok)

\* the request side of the running bot
BridgeSpec == InitBridge /\ [][NextBridge]_vars

----------------------------------------------------------------------------
(* The process *)

\* the process and the client before main() has run
LifeAtStart ==
    /\ mainPc = "start"
    /\ loadIdx = 0
    /\ commands = EmptyCommands
    /\ listeners = {}
    /\ sigListeners = {}
    /\ uncaughtOn = FALSE
    /\ queueManager = FALSE
    /\ begun = {}
    /\ finished = {}
    /\ clientState = "new"
    /\ readyCount = 0
    /\ presenceCalls = 0
    /\ isShuttingDown = FALSE
    /\ shutPc = "idle"
    /\ shutCode = 0
    /\ shutTrigger = "none"
    /\ stopCalls = 0
    /\ destroyCalls = 0
    /\ stopFailed = FALSE
    /\ destroyFailed = FALSE
    /\ sigSent = [s \in Signals |-> 0]
    /\ uncaughtSent = 0
    /\ procState = "running"
    /\ exitCode = -1
    /\ exitBy = "none"
    /\ logs = {}
    /\ unhandledOn = FALSE

InitLife ==
    /\ tokenSet \in BOOLEAN
    /\ \E d \in Directories : cmdFiles = d.cmd /\ evFiles = d.ev
    /\ LifeAtStart
    /\ req = [r \in ReqIds |-> FreshReq]
    /\ jobs = << >>
    /\ fnCall = NoFn
    /\ fnRet = NoRet

Init == InitLife

NextLife ==
    \/ \E built \in BOOLEAN : MainStart(built)
    \/ \E ok \in BOOLEAN : StartWorkerReturn(ok)
    \/ \E ok \in BOOLEAN : ReaddirCommandsReturn(ok)
    \/ ImportCommandReturn
    \/ \E ok \in BOOLEAN : ReaddirEventsReturn(ok)
    \/ ImportEventReturn
    \/ \E ok \in BOOLEAN : LoginReturn(ok)
    \/ ReadyFire
    \/ \E ok \in BOOLEAN : StopWorkerReturn(ok)
    \/ \E ok \in BOOLEAN : DestroyReturn(ok)
    \/ \E s \in Signals : Signal(s)
    \/ UncaughtException

Next == NextLife

Spec == Init /\ [][Next]_vars

\* the shutdown steps are given the chance to return or throw
LiveSpec ==
    /\ Init /\ [][Next]_vars
    /\ WF_vars(\E ok \in BOOLEAN : StopWorkerReturn(ok))
    /\ WF_vars(\E ok \in BOOLEAN : DestroyReturn(ok))

\* the helper functions, each called once on every input up to the bounds
InitFn ==
    /\ tokenSet = TRUE
    /\ cmdFiles = RepoCommandFiles /\ evFiles = RepoEventFiles
    /\ LifeAtStart
    /\ req = [r \in ReqIds |-> FreshReq]
    /\ jobs = << >>
    /\ fnCall \in ToChunksCalls \cup PickAnswerCalls
    /\ fnRet = NoRet

NextFn ==
    \/ ToChunksCall
    \/ PickAnswerCall

FnSpec == InitFn /\ [][NextFn]_vars

----------------------------------------------------------------------------
(* Dispatcher and bridge claims *)

\* the settled sends of request r that satisfy P, and the send it awaits
Sends(r) == {i \in DOMAIN req[r].sent : TRUE}
SendAt(r, i) == req[r].sent[i]
Slash(r) == req[r].kind = "slash"
Over(r) == req[r].k = "done"

\* a terminal reply: an initial reply or an edit of the initial response that
\* the transport delivered
TerminalReplies(r) ==
    {i \in Sends(r) : SendAt(r, i).ok /\ SendAt(r, i).op \in {"reply", "editReply"}}

\* the sends that make or edit the initial response
InitialAttempts(r) ==
    {i \in Sends(r) : SendAt(r, i).op \in {"reply", "editReply", "deferReply"}}

\* C1 (as claimed): an interaction never gets more than one terminal reply,
\* and a dispatch that is over, none of whose initial responses the transport
\* rejected, has delivered exactly one.
C1_ExactlyOneTerminalReply ==
    \A r \in ReqIds :
        Slash(r) =>
            /\ Cardinality(TerminalReplies(r)) <= 1
            /\ (Over(r) /\ \A i \in InitialAttempts(r) : SendAt(r, i).ok)
                  => Cardinality(TerminalReplies(r)) = 1

\* the sends the dispatcher made for request r, settled or awaited
DispatcherSettled(r, what) ==
    {i \in Sends(r) : SendAt(r, i).by = "dispatcher" /\ SendAt(r, i).what = what}
DispatcherAwaits(r, what) ==
    req[r].pend.by = "dispatcher" /\ req[r].pend.what = what

\* C2: the dispatch of a command name with no registered handler calls no
\* handler and issues one reply, 'Unknown command.', and nothing else.
C2_UnknownCommand ==
    \A r \in ReqIds :
        (Slash(r) /\ Lookup(req[r].cmd) = NoFile) =>
            /\ req[r].invoked = {}
            /\ \A i \in Sends(r) :
                  /\ SendAt(r, i).op = "reply" /\ SendAt(r, i).by = "dispatcher"
                  /\ SendAt(r, i).what = MsgUnknown
            /\ IF DispatcherAwaits(r, MsgUnknown)
               THEN req[r].pend.op = "reply" /\ req[r].sent = << >>
               ELSE Over(r) /\ Len(req[r].sent) = 1

\* C2 witness: an unknown command was answered
C2_Witness ==
    \E r \in ReqIds :
        /\ Slash(r) /\ req[r].cmd = "bogus" /\ Over(r)
        /\ Len(req[r].sent) = 1 /\ SendAt(r, 1).ok

\* C3: when command.execute rejects, the dispatcher issues one error message:
\* a follow-up if the interaction was deferred or replied, an initial reply
\* otherwise; it issues none when execute resolves; and nobody issues an
\* initial reply on an interaction whose latch is set.
C3_DispatcherErrorReply ==
    \A r \in ReqIds :
        /\ req[r].raised =>
              /\ Cardinality(DispatcherSettled(r, MsgCommandError))
                    + (IF DispatcherAwaits(r, MsgCommandError) THEN 1 ELSE 0) = 1
              /\ DispatcherAwaits(r, MsgCommandError) =>
                    (req[r].pend.op = IF LatchSet(req[r]) THEN "followUp" ELSE "reply")
              /\ \A i \in DispatcherSettled(r, MsgCommandError) :
                    SendAt(r, i).op = IF SendAt(r, i).latch THEN "followUp" ELSE "reply"
        /\ ~req[r].raised =>
              /\ DispatcherSettled(r, MsgCommandError) = {}
              /\ ~DispatcherAwaits(r, MsgCommandError)
        /\ \A i \in Sends(r) : SendAt(r, i).op \in InitialOps => ~SendAt(r, i).latch
        /\ req[r].pend.op \in InitialOps => ~LatchSet(req[r])

\* C3 witness: a handler threw after deferring and the dispatcher's follow-up
\* was delivered
C3_Witness ==
    \E r \in ReqIds :
        /\ req[r].raised /\ req[r].deferred /\ Over(r)
        /\ \E i \in DispatcherSettled(r, MsgCommandError) :
              SendAt(r, i).op = "followUp" /\ SendAt(r, i).ok

\* request r sends, or has sent, an answer or a chunk of one
AnswerSent(r) ==
    \/ req[r].pend.what \in {EmbedAnswer, Chunk}
    \/ \E i \in Sends(r) : SendAt(r, i).what \in {EmbedAnswer, Chunk}

\* C9: when the await of a job timed out, the handler gets the timeout error
\* and never sends an answer for the job, also when the job completes later.
C9_LateResultDiscarded ==
    \A r \in ReqIds :
        req[r].awaited = "timeout" =>
            /\ "AwaitTimeout" \in req[r].thrown
            /\ ~AnswerSent(r)
            /\ req[r].pend.op # "wait"

\* C9 witness: a slash command and a mention both timed out, both handlers
\* are over, and both jobs completed afterwards
C9_Witness ==
    \E r1, r2 \in ReqIds :
        /\ req[r1].kind = "slash" /\ req[r2].kind = "message"
        /\ \A r \in {r1, r2} :
              /\ req[r].awaited = "timeout" /\ Over(r)
              /\ Completed(req[r].job)

\* the generic error messages of the two handlers
SubmitFailureMessages == {MsgProcessing, MsgMentionError}

\* C10 (as claimed): on both paths a request whose await timed out is told
\* 'Request timed out. Try again.' and not the message of a failed submission.
C10_TimeoutMessageDistinct ==
    \A r \in ReqIds :
        req[r].awaited = "timeout" =>
            /\ req[r].pend.what \notin SubmitFailureMessages
            /\ \A i \in Sends(r) : SendAt(r, i).what \notin SubmitFailureMessages
            /\ req[r].pend.what = MsgTimedOut
                  \/ \E i \in Sends(r) : SendAt(r, i).what = MsgTimedOut

----------------------------------------------------------------------------
(* Lifecycle claims *)

\* a termination trigger is delivered in this step
TriggerDelivered == sigSent' # sigSent \/ uncaughtSent' # uncaughtSent

\* C4 (as claimed): the shutdown sequence runs at most once, and a trigger
\* delivered after shutdown has started is a no-op: it starts nothing and it
\* does not end the process.
C4_LaterTriggerNoOp ==
    /\ [][stopCalls' <= 1 /\ destroyCalls' <= 1]_vars
    /\ [][(isShuttingDown /\ TriggerDelivered) =>
             UNCHANGED << isShuttingDown, shutPc, shutCode, shutTrigger, stopCalls,
                          destroyCalls, procState, exitCode, exitBy >>]_vars

\* C5 (as claimed): the registry is populated, then the queue worker is
\* started, then the transport is connected, none before the one before it
\* is over: when startWorker is called the two loaders are through, and when
\* login is called the worker step is.
C5_RegistryBeforeWorker ==
    /\ "worker" \in begun => {"commands", "events"} \subseteq finished
    /\ "login" \in begun => "worker" \in finished

\* C6 (as claimed): once the transport has emitted 'ready', setPresence has
\* been called exactly once, however often 'ready' fires.
C6_PresenceOnce == readyCount >= 1 => presenceCalls = 1

\* C7: shutdown attempts stopWorker before client.destroy; whether stopWorker
\* returns or throws, client.destroy is attempted next; whether client.destroy
\* returns or throws, process.exit is next; and if the two steps return or
\* throw, the process ends.
C7_ShutdownSteps ==
    /\ [](shutPc = "stopWorker" => destroyCalls = 0)
    /\ []((isShuttingDown /\ queueManager) => stopCalls = 1)
    /\ [](stopFailed => destroyCalls = 1)
    /\ [](exitBy = "shutdown" => destroyCalls = 1)
    /\ [][(shutPc = "stopWorker" /\ shutPc' # shutPc) =>
             (shutPc' = "destroy" /\ destroyCalls' = destroyCalls + 1)]_vars
    /\ [][(shutPc = "destroy" /\ shutPc' # shutPc) =>
             (procState' = "exited" /\ exitBy' = "shutdown")]_vars
    /\ (isShuttingDown ~> ~Running)

\* C7 witness: both steps threw and the process exited through shutdown
C7_Witness == stopFailed /\ destroyFailed /\ exitBy = "shutdown"

\* C8 (as claimed): a process whose shutdown was triggered by a signal exits
\* with status 0, one whose shutdown was triggered by an uncaught exception
\* exits with status 1.
C8_ExitStatusByTrigger ==
    procState = "exited" =>
        /\ shutTrigger \in Signals => exitCode = 0
        /\ shutTrigger = "uncaughtException" => exitCode = 1

----------------------------------------------------------------------------
(* Helper function claims *)

\* ceil(a / b) for b > 0
CeilDiv(a, b) == (a + b - 1) \div b

\* the chunks are pieces of one text that follow each other without a gap
\* and cover it from its first to its last character
Reconstructs(chunks, text) ==
    /\ \A i \in 1 .. Len(chunks) :
          /\ chunks[i].kind = text.kind /\ chunks[i].job = text.job
          /\ chunks[i].field = text.field
    /\ \A i \in 1 .. Len(chunks) - 1 : chunks[i].hi = chunks[i + 1].lo
    /\ IF Len(chunks) = 0
       THEN TextLen(text) = 0
       ELSE chunks[1].lo = text.lo /\ chunks[Len(chunks)].hi = text.hi

\* C11: toChunks(T, S) returns ceil(len(T) / S) chunks, none empty and none
\* longer than S, whose concatenation in order is T.
C11_ChunksReconstruct ==
    (fnCall.fn = "toChunks" /\ fnRet.done) =>
        /\ Len(fnRet.chunks) = CeilDiv(TextLen(fnCall.text), fnCall.size)
        /\ \A i \in 1 .. Len(fnRet.chunks) :
              TextLen(fnRet.chunks[i]) >= 1 /\ TextLen(fnRet.chunks[i]) <= fnCall.size
        /\ Reconstructs(fnRet.chunks, fnCall.text)

\* C11 witness: a text was cut into several chunks, the last one shorter
C11_Witness ==
    /\ fnCall.fn = "toChunks" /\ fnRet.done
    /\ Len(fnRet.chunks) >= 3
    /\ TextLen(fnRet.chunks[Len(fnRet.chunks)]) < fnCall.size

\* C12: pickAnswer returns the value of the first of answer, output, message,
\* data that is neither null nor undefined, and 'No answer received.' when
\* there is none or there is no result.
C12_FirstPopulatedField ==
    (fnCall.fn = "pickAnswer" /\ fnRet.done) =>
        LET r == fnCall.result
            populated == {i \in 1 .. 4 : ~r.nil /\ r[FieldOrder[i]].kind \notin {"absent", "null"}}
        IN IF populated = {}
           THEN /\ fnRet.picked.field = "fallback"
                /\ fnRet.picked.kind = "string"
                /\ TextLen(fnRet.picked) = FallbackLen
           ELSE \E i \in populated :
                   /\ \A j \in populated : i <= j
                   /\ fnRet.picked.field = FieldOrder[i]
                   /\ fnRet.picked.kind = r[FieldOrder[i]].kind
                   /\ TextLen(fnRet.picked) = r[FieldOrder[i]].len

\* C12 witness: all four fields were populated and answer, an empty string,
\* was returned
C12_Witness ==
    /\ fnCall.fn = "pickAnswer" /\ fnRet.done
    /\ fnCall.result.answer = Str(0) /\ fnCall.result.output = Str(MaxLen)
    /\ fnCall.result.message = Obj /\ fnCall.result.data = Str(MaxLen)
    /\ fnRet.picked.field = "answer"

----------------------------------------------------------------------------
(* Delivery claims *)

\* the settled sends of request r that carry `what`, in the order they were made
SentOf(r, what) == SelectSeq(req[r].sent, LAMBDA e : e.what = what)

\* the texts of a sequence of sends
TextsOf(sends) == [i \in 1 .. Len(sends) |-> sends[i].text]

\* the chunk size of the path request r takes
FollowupCeiling(r) == IF Slash(r) THEN AskChunkSize ELSE MentionChunkSize

\* request r got a string for an answer and delivered all of it
Delivered(r) ==
    /\ Over(r) /\ req[r].awaited = "result" /\ req[r].answer.kind = "string"
    /\ req[r].fails = 0

\* C13: the primary reply shows the characters [0, min(L, D)) of the answer;
\* an answer that was delivered has no follow-ups when L <= D and otherwise
\* ceil((L - D) / F) follow-ups that are, in send order, the characters
\* [D, L); an answer of 5000 characters has one follow-up of 904 characters.
C13_DeliveryPolicy ==
    \A r \in ReqIds :
        LET answer == req[r].answer
            L == TextLen(answer)
            primary == SentOf(r, EmbedAnswer)
            followUps == TextsOf(SentOf(r, Chunk))
        IN /\ \A i \in 1 .. Len(primary) :
                 /\ primary[i].text.lo = answer.lo
                 /\ primary[i].text.hi = answer.lo + Min(L, DisplayCeiling)
                 /\ primary[i].text.field = answer.field
                 /\ primary[i].text.job = answer.job
           /\ Delivered(r) =>
                 /\ Len(primary) = 1
                 /\ L <= DisplayCeiling => Len(followUps) = 0
                 /\ L > DisplayCeiling =>
                       /\ Len(followUps) = CeilDiv(L - DisplayCeiling, FollowupCeiling(r))
                       /\ Reconstructs(followUps, SliceFrom(answer, DisplayCeiling))
                 /\ L = 5000 => Len(followUps) = 1 /\ TextLen(followUps[1]) = 904

\* C13 witness: an answer of 5000 characters was delivered to a slash command
\* and one longer than the ceiling plus a chunk to a mention
C13_Witness ==
    \E r1, r2 \in ReqIds :
        /\ Slash(r1) /\ Delivered(r1) /\ TextLen(req[r1].answer) = 5000
        /\ req[r2].kind = "message" /\ Delivered(r2)
        /\ TextLen(req[r2].answer) > DisplayCeiling + AskChunkSize
        /\ Len(SentOf(r2, Chunk)) = 3

\* C20: the follow-ups of a request are sent one at a time and in order: a
\* follow-up is started only after the primary reply and every follow-up
\* before it were delivered, it carries the characters that come next, and
\* after a follow-up that failed no further follow-up is sent.
C20_SequentialChunks ==
    \A r \in ReqIds :
        LET sent == req[r].sent
            chunkAt == {i \in DOMAIN sent : sent[i].what = Chunk}
            start == req[r].answer.lo + DisplayCeiling
        IN /\ \A i \in chunkAt :
                 /\ \E p \in 1 .. i - 1 : sent[p].what = EmbedAnswer /\ sent[p].ok
                 /\ \A j \in chunkAt : j < i => sent[j].ok
                 /\ sent[i].text.lo =
                       IF \E j \in chunkAt : j < i
                       THEN sent[CHOOSE j \in chunkAt :
                                   j < i /\ \A k \in chunkAt : k < i => k <= j].text.hi
                       ELSE start
           /\ req[r].pend.what = Chunk =>
                 /\ \E p \in DOMAIN sent : sent[p].what = EmbedAnswer /\ sent[p].ok
                 /\ \A j \in chunkAt : sent[j].ok
                 /\ req[r].pend.text.lo =
                       IF chunkAt = {} THEN start
                       ELSE sent[CHOOSE j \in chunkAt : \A k \in chunkAt : k <= j].text.hi

\* C20 witness: the first of two follow-ups of a slash command was rejected,
\* and the command is over
C20_Witness ==
    \E r \in ReqIds :
        /\ Slash(r) /\ Over(r)
        /\ TextLen(req[r].answer) > DisplayCeiling + AskChunkSize
        /\ Len(SentOf(r, Chunk)) = 1 /\ ~SentOf(r, Chunk)[1].ok

----------------------------------------------------------------------------
(* Discovery claims *)

\* the candidates the loaders accept
ValidCommand(c) == c.importOk /\ c.hasData /\ c.hasExecute /\ c.name # NoName
ValidEvent(e) == e.importOk /\ e.hasExecute /\ e.name # NoName

\* the positions of two valid modules of one name, the second after the first
CommandTwins ==
    {p \in (DOMAIN cmdFiles) \X (DOMAIN cmdFiles) :
        /\ p[1] < p[2] /\ ValidCommand(cmdFiles[p[1]]) /\ ValidCommand(cmdFiles[p[2]])
        /\ cmdFiles[p[1]].name = cmdFiles[p[2]].name}
EventTwins ==
    {p \in (DOMAIN evFiles) \X (DOMAIN evFiles) :
        /\ p[1] < p[2] /\ ValidEvent(evFiles[p[1]]) /\ ValidEvent(evFiles[p[2]])
        /\ evFiles[p[1]].name = evFiles[p[2]].name}

\* the loaders ran through their directory
CommandsLoaded ==
    /\ "commands" \in finished
    /\ \A l \in logs : l.msg # "Failed to read commands directory"
EventsLoaded ==
    /\ "events" \in finished
    /\ \A l \in logs : l.msg # "Failed to read events directory"

\* C14 (as claimed): when two modules register under one name, the second
\* replaces the first, a warning is logged for the overwrite, and only the
\* second handler is there to be invoked for that name.
C14_DuplicateOverwrite ==
    /\ CommandsLoaded =>
          \A p \in CommandTwins :
              /\ commands[cmdFiles[p[2]].name] = cmdFiles[p[2]].file
              /\ \E l \in logs : l.level = "warn" /\ l.file = cmdFiles[p[2]].file
    /\ EventsLoaded =>
          \A p \in EventTwins :
              /\ \A l \in listeners :
                    l.event = evFiles[p[2]].name => l.handler = evFiles[p[2]].file
              /\ \E l \in logs : l.level = "warn" /\ l.file = evFiles[p[2]].file

\* the names under which a command is registered, the files whose event
\* listener is registered
RegisteredCommands == {n \in CommandNames : commands[n] # NoFile}
RegisteredEvents == {l.handler : l \in listeners} \ {InlineReadyListener.handler}

\* C17: when a loader has run through its directory, every candidate was
\* handled, and the registered handlers are those of the valid modules,
\* wherever the modules that fail to import or to validate sit.
C17_BadModulesSkipped ==
    /\ CommandsLoaded =>
          /\ RegisteredCommands =
                {cmdFiles[i].name : i \in {j \in DOMAIN cmdFiles : ValidCommand(cmdFiles[j])}}
          /\ \A i \in DOMAIN cmdFiles : CommandLog(cmdFiles[i]) \in logs
    /\ (EventsLoaded /\ readyCount = 0) =>
          /\ RegisteredEvents =
                {evFiles[i].file : i \in {j \in DOMAIN evFiles : ValidEvent(evFiles[j])}}
          /\ \A i \in DOMAIN evFiles : EventLog(evFiles[i]) \in logs

\* C17 witness: both directories start with a module whose import throws,
\* and the modules after it are registered
C17_Witness ==
    /\ CommandsLoaded /\ EventsLoaded
    /\ ~cmdFiles[1].importOk /\ ~evFiles[1].importOk
    /\ RegisteredCommands = {"ask", "help"}
    /\ RegisteredEvents = {"interactionCreate.ts", "messageCreate.ts"}

----------------------------------------------------------------------------
(* Fault claims *)

\* C15: without the token nothing is started: no queue worker, no loading of
\* handlers, no login; main ends the process with status 1, and the process
\* never exits with status 0.
C15_MissingTokenExits ==
    ~tokenSet =>
        /\ begun = {} /\ finished = {}
        /\ ~queueManager /\ commands = EmptyCommands /\ listeners = {}
        /\ clientState = "new" /\ logs = {}
        /\ mainPc # "start" => (procState = "exited" /\ exitBy = "config")
        /\ procState = "exited" => exitCode = 1

\* C15 witness: main ended the process for the missing token
C15_Witness == ~tokenSet /\ procState = "exited" /\ exitBy = "config" /\ exitCode = 1

\* C18: what happens to an interaction or a message, the rejection of the
\* error reply included, never starts shutdown and never ends the process.
C18_FaultsContained ==
    /\ procState = "running" /\ exitCode = -1 /\ exitBy = "none"
    /\ ~isShuttingDown /\ shutPc = "idle" /\ stopCalls = 0 /\ destroyCalls = 0
    /\ clientState = "ready"

\* C18 witness: the dispatcher's error reply for a command that threw was
\* rejected, the rejection was logged, and a mention ran into an error
C18_Witness ==
    /\ \E r \in ReqIds : Slash(r) /\ req[r].raised /\ req[r].rejected
    /\ \E r \in ReqIds : req[r].kind = "message" /\ req[r].thrown # {} /\ Over(r)
    /\ \E l \in logs : l.msg = "Unhandled promise rejection"

\* C19 (as claimed): a process that ends because the login failed has gone
\* through shutdown: the queue worker was stopped and the client destroyed,
\* and the status is 1.
C19_LoginFailureShutsDown ==
    (procState = "exited" /\ exitBy = "login") =>
        /\ exitCode = 1
        /\ queueManager => stopCalls = 1
        /\ destroyCalls = 1

\* C16: the typing timer of a mention is set only while the handler is
\* between setInterval and the end of the inner try block, so whichever way
\* the handler ends (answer delivered, addJob failed, the await timed out, the
\* reply or a chunk was rejected), no timer of it is left.
C16_TypingTimerStopped ==
    \A r \in ReqIds :
        /\ req[r].typer =>
              /\ req[r].kind = "message"
              /\ req[r].k \in {"mAddJob", "mWait", "mReply", "mSend"}
        /\ req[r].k \in {"mAddJob", "mWait"} => req[r].typer

\* C16 witness: one mention ended on a timeout and one on a rejected chunk,
\* both after the timer had been set
C16_Witness ==
    \E r1, r2 \in ReqIds :
        /\ req[r1].kind = "message" /\ Over(r1) /\ req[r1].awaited = "timeout"
        /\ req[r2].kind = "message" /\ Over(r2)
        /\ \E i \in DOMAIN req[r2].sent :
              req[r2].sent[i].what = Chunk /\ ~req[r2].sent[i].ok
        /\ ~req[r1].typer /\ ~req[r2].typer

----------------------------------------------------------------------------
(* Requests in flight together *)

\* the requests that come after the first one
Others == ReqIds \ {1}

\* the steps that take request r on: the transport settles its send, the
\* queue answers its call, its job completes or its timeout elapses
StepsOf(r) ==
    \/ \E ok, saysTimedOut \in BOOLEAN : SendReturn(r, ok, saysTimedOut)
    \/ \E ok \in BOOLEAN : GetMetricsReturn(r, ok)
    \/ \E ok, saysTimedOut \in BOOLEAN : AddJobReturn(r, ok, saysTimedOut)
    \/ WaitReturn(r)
    \/ WaitTimeout(r)

\* the request side where every call of the later requests is answered in the
\* end; the first request may stay suspended for ever, and no job has to
\* complete
BridgeLiveSpec ==
    /\ InitBridge /\ [][NextBridge]_vars
    /\ \A r \in Others : WF_vars(StepsOf(r))

\* C21: a request suspended at its await holds nothing back.  While the first
\* request awaits a job that never completes, a later request can arrive, each
\* call a request awaits can be answered, and every later request that arrived
\* comes to its end.
C21_NoHeadOfLineBlocking ==
    /\ [](\A r \in ReqIds :
            /\ (req[r].k = "idle" /\ Running
                  /\ \A p \in ReqIds : p < r => req[p].k # "idle")
                 => ENABLED (\E cmd \in CommandInputs :
                               InteractionCreate(r, cmd, TRUE))
            /\ (req[r].pend.op # "none" /\ Running) => ENABLED StepsOf(r))
    /\ \A r \in Others : (req[r].k # "idle") ~> Over(r)

\* C21 witness: the first request is still suspended at its await, its job
\* not completed, and a later /ask has had its answer delivered
C21_Witness ==
    \E r \in Others :
        /\ req[1].pend.op = "wait" /\ ~Completed(req[1].job)
        /\ Slash(r) /\ Delivered(r) /\ TerminalReplies(r) # {}

\* the jobs request r submitted, and the requests awaiting job j
JobsOf(r) == {j \in 1 .. Len(jobs) : jobs[j].owner = r}
AwaitersOf(j) == {r \in ReqIds : req[r].pend.op = "wait" /\ req[r].job = j}
CallsOf(r, op) == Len(SelectSeq(req[r].calls, LAMBDA c : c = op))

\* C22: each request submits at most one job and awaits the id its own
\* submission returned: a job is awaited by its submitter only, and the answer
\* a request sends is picked from the result of the job it submitted, in
\* whatever order the jobs complete.
C22_OwnJobAwaited ==
    /\ \A r \in ReqIds :
          /\ CallsOf(r, "addJob") <= 1 /\ Cardinality(JobsOf(r)) <= 1
          /\ req[r].job # 0 <=> JobsOf(r) # {}
          /\ req[r].job # 0 => JobsOf(r) = {req[r].job}
          /\ req[r].pend.op = "wait" => req[r].job # 0
          /\ req[r].awaited = "result" =>
                /\ Completed(req[r].job)
                /\ req[r].answer = pickAnswer(req[r].job, jobs[req[r].job].result)
          /\ \A i \in Sends(r) :
                SendAt(r, i).what \in {EmbedAnswer, Chunk} =>
                    /\ req[r].awaited = "result"
                    /\ SendAt(r, i).text.job = req[r].answer.job
                    /\ SendAt(r, i).text.job \in {req[r].job, Fallback.job}
    /\ \A j \in 1 .. Len(jobs) :
          /\ Cardinality(AwaitersOf(j)) <= 1
          /\ AwaitersOf(j) \subseteq {jobs[j].owner}

\* C22 witness: two requests submitted a job each; the job submitted last
\* completed first and its requester, an /ask, has had its own job's answer
\* delivered, while the first requester still awaits the first job
C22_Witness ==
    /\ Len(jobs) = 2 /\ ~Completed(1) /\ Completed(2)
    /\ AwaitersOf(1) = {jobs[1].owner}
    /\ LET r == jobs[2].owner
       IN /\ Slash(r) /\ Delivered(r) /\ req[r].job = 2
          /\ \E i \in Sends(r) :
                /\ SendAt(r, i).what = EmbedAnswer /\ SendAt(r, i).ok
                /\ SendAt(r, i).text.job = 2

\* C23: a request calls addJob at most once and waitForJobCompletion at most
\* once, and calls nothing else on the queue for a question; when its await
\* timed out it has made exactly these two calls, the step that takes the
\* timeout leaves the queue as it is, and the job stays in the queue, where
\* only the worker changes it.
C23_NoCancelNoRetry ==
    /\ [](\A r \in ReqIds :
            /\ CallsOf(r, "addJob") <= 1 /\ CallsOf(r, "wait") <= 1
            /\ \A i \in DOMAIN req[r].calls : req[r].calls[i] \in QueueOps
            /\ req[r].awaited = "timeout" =>
                  /\ req[r].calls = << "addJob", "wait" >>
                  /\ req[r].pend.op \notin QueueOps
                  /\ JobsOf(r) = {req[r].job})
    /\ [][/\ Len(jobs') >= Len(jobs)
          /\ \A j \in 1 .. Len(jobs) :
                /\ jobs'[j].owner = jobs[j].owner
                /\ Completed(j) => jobs'[j] = jobs[j]
          /\ (\E r \in ReqIds : req[r].awaited = "none" /\ req'[r].awaited = "timeout")
                => jobs' = jobs]_vars

\* C23 witness: the await of a mention timed out, the handler has replied with
\* its error message and is over, and the job is still queued, not completed
C23_Witness ==
    \E r \in ReqIds :
        /\ req[r].kind = "message" /\ req[r].awaited = "timeout" /\ Over(r)
        /\ req[r].calls = << "addJob", "wait" >>
        /\ jobs[req[r].job].status = "queued"
        /\ \E i \in Sends(r) : SendAt(r, i).what = MsgMentionError /\ SendAt(r, i).ok

----------------------------------------------------------------------------
(* The process with a request at work *)

\* the steps of the first request: it arrives, its calls are answered
NextFirst ==
    \/ \E cmd \in CommandInputs, chatInput \in BOOLEAN :
          InteractionCreate(1, cmd, chatInput)
    \/ \E shape \in MessageShapes : MessageCreate(1, shape)
    \/ StepsOf(1)
    \/ TypingTick(1)
    \/ \E ok \in BOOLEAN : TypingReturn(1, ok)
    \/ \E j \in JobIds, result \in Payloads : JobComplete(j, result)

\* the repository's own directories
InitRun ==
    /\ tokenSet \in BOOLEAN
    /\ cmdFiles = RepoCommandFiles /\ evFiles = RepoEventFiles
    /\ LifeAtStart
    /\ req = [r \in ReqIds |-> FreshReq]
    /\ jobs = << >>
    /\ fnCall = NoFn
    /\ fnRet = NoRet

\* the bot of the repository from its start, with one request arriving as
\* soon as a listener is registered for it: startup, the request and shutdown
\* interleave
RunSpec == InitRun /\ [][NextLife \/ NextFirst]_vars

\* directories with two modules of one name: ask2.ts is a copy of ask.ts,
\* interactionCreate2.ts a copy of the dispatcher
TwinCommandFiles == << askCommand, askAgainCommand, helpCommand >>
TwinEventFiles == << interactionCreateEvent, interactionAgainEvent, messageCreateEvent >>

\* the bot as main() leaves it when it started from these directories: both
\* dispatcher modules listen, and there is no ready module
InitTwin ==
    /\ tokenSet = TRUE
    /\ mainPc = "returned"
    /\ cmdFiles = TwinCommandFiles
    /\ evFiles = TwinEventFiles
    /\ loadIdx = Len(TwinEventFiles)
    /\ commands = [n \in CommandNames |->
                     IF n = "ask" THEN "ask2.ts"
                     ELSE IF n = "help" THEN "help.ts" ELSE NoFile]
    /\ listeners = { [event |-> "interactionCreate", once |-> FALSE,
                      handler |-> "interactionCreate.ts"],
                     [event |-> "interactionCreate", once |-> FALSE,
                      handler |-> "interactionCreate2.ts"],
                     [event |-> "messageCreate", once |-> FALSE,
                      handler |-> "messageCreate.ts"] }
    /\ sigListeners = Signals
    /\ uncaughtOn = TRUE
    /\ queueManager \in BOOLEAN
    /\ begun = {"worker", "commands", "events", "login"}
    /\ finished = {"worker", "commands", "events", "login"}
    /\ clientState = "ready"
    /\ readyCount = 1
    /\ presenceCalls = 1
    /\ isShuttingDown = FALSE
    /\ shutPc = "idle"
    /\ shutCode = 0
    /\ shutTrigger = "none"
    /\ stopCalls = 0
    /\ destroyCalls = 0
    /\ stopFailed = FALSE
    /\ destroyFailed = FALSE
    /\ sigSent = [s \in Signals |-> 0]
    /\ uncaughtSent = 0
    /\ procState = "running"
    /\ exitCode = -1
    /\ exitBy = "none"
    /\ logs = {CommandLog(TwinCommandFiles[i]) : i \in 1 .. Len(TwinCommandFiles)}
                \cup {EventLog(TwinEventFiles[i]) : i \in 1 .. Len(TwinEventFiles)}
    /\ unhandledOn = TRUE
    /\ req = [r \in ReqIds |-> FreshReq]
    /\ jobs = << >>
    /\ fnCall = NoFn
    /\ fnRet = NoRet

\* one interaction handled by a bot with two dispatcher modules
NextTwin ==
    \/ \E cmd \in CommandInputs, chatInput \in BOOLEAN :
          InteractionCreate(1, cmd, chatInput)
    \/ StepsOf(1)
    \/ \E j \in JobIds, result \in Payloads : JobComplete(j, result)

TwinSpec == InitTwin /\ [][NextTwin]_vars

\* request r is an /ask that reached the ask handler
AskInvoked(r) == Slash(r) /\ req[r].invoked \cap AskFiles # {}

\* the sends of request r that show the message text what
Showing(r, what) == {i \in Sends(r) : SendAt(r, i).what = what}

\* C24 (as claimed): without a queue the bot starts and stays up.  When
\* startWorker failed,
\* no queue manager is attached and startup goes on to the loaders and to
\* login.  An /ask that finds no queue manager, or whose addJob fails, leaves
\* no job in the queue and issues the generic processing-error message, once,
\* as its only message; no step of a request taken once main has called login
\* (the process listeners of index.ts 194-202 are registered before the call)
\* ends or shuts down the process.
C24_NoQueueDegrades ==
    /\ [](("worker" \in finished /\ ~queueManager) =>
            /\ "commands" \in begun
            /\ "commands" \in finished => "events" \in begun
            /\ "events" \in finished => "login" \in begun
            /\ \A r \in ReqIds : AskInvoked(r) => NoQueueError.kind \in req[r].thrown)
    /\ [](\A r \in ReqIds :
            (AskInvoked(r)
               /\ req[r].thrown \cap {NoQueueError.kind, QueueUnavailable(FALSE).kind} # {}) =>
                /\ JobsOf(r) = {} /\ req[r].job = 0
                /\ CallsOf(r, "wait") = 0
                /\ NoQueueError.kind \in req[r].thrown => req[r].calls = << >>
                /\ req[r].pend.op \in ChatOps => req[r].pend.what \in {MsgProcessing, MsgCommandError}
                /\ Cardinality(Showing(r, MsgProcessing)) <= 1
                /\ Showing(r, EmbedAnswer) \cup Showing(r, MsgTimedOut) = {}
                /\ (Over(r) /\ req[r].fails = 0) =>
                      /\ Cardinality(Showing(r, MsgProcessing)) = 1
                      /\ Showing(r, MsgCommandError) = {}
                      /\ Cardinality(TerminalReplies(r)) = 1)
    /\ [][(req' # req /\ "login" \in begun) =>
            /\ procState' = procState /\ exitCode' = exitCode
            /\ isShuttingDown' = isShuttingDown /\ shutPc' = shutPc]_vars

----------------------------------------------------------------------------
(* Loader claims: validation *)

\* a loader step: the candidate at loadIdx has been handled
CommandHandled ==
    mainPc = "importCommand" /\ (loadIdx' # loadIdx \/ mainPc' # mainPc)
EventHandled ==
    mainPc = "importEvent" /\ (loadIdx' # loadIdx \/ mainPc' # mainPc)

\* an imported candidate without name or without callable execute
Lacking(c) == c.importOk /\ (c.name = NoName \/ ~c.hasExecute)

WarnedFor(c) == \E l \in logs' \ logs : l.level = "warn" /\ l.file = c.file

\* the listeners the event loader registered
Loaded == listeners \ {InlineReadyListener}

\* C25: a loader step registers its candidate only when the candidate has a
\* name and a callable execute, and then under that name; a candidate that
\* was imported and lacks either leaves the registry as it was and gets a
\* warning in the log.
C25_OnlyValidRegistered ==
    /\ [][CommandHandled =>
            LET c == cmdFiles[loadIdx]
            IN /\ commands' # commands =>
                     /\ c.name # NoName /\ c.hasExecute
                     /\ commands' = [commands EXCEPT ![c.name] = c.file]
               /\ Lacking(c) => (commands' = commands /\ WarnedFor(c))]_vars
    /\ [][EventHandled =>
            LET e == evFiles[loadIdx]
            IN /\ Loaded' # Loaded =>
                     /\ e.name # NoName /\ e.hasExecute
                     /\ Loaded' = Loaded \cup
                          {[event |-> e.name, once |-> e.once, handler |-> e.file]}
               /\ Lacking(e) => (Loaded' = Loaded /\ WarnedFor(e))]_vars

\* C25 witness: both loaders met a module without callable execute: the
\* warnings are in the log and the modules are not registered, while the
\* modules around them are
C25_Witness ==
    /\ CommandsLoaded /\ EventsLoaded /\ readyCount = 0
    /\ cmdFiles[2] = noExecuteCommand /\ evFiles[2] = noExecuteEvent
    /\ Log("warn", "Invalid command module", noExecuteCommand.file) \in logs
    /\ Log("warn", "Invalid event module", noExecuteEvent.file) \in logs
    /\ RegisteredCommands = {"ask", "help"}
    /\ RegisteredEvents = {"interactionCreate.ts", "ready.ts"}

\* a request has reached a listener
Dispatched == \E r \in ReqIds : req[r].k # "idle" \/ req[r].invoked # {}

\* C26: client.commands changes only in the steps of loadCommands, which are
\* over before the first listener is registered and before login begins.  A
\* request is dispatched only once loadCommands is through, whenever the
\* client emits it, and from the first dispatch and from the call of login
\* on no step (dispatch, handler, event loader, signal, shutdown) changes the
\* registry.
C26_RegistryFrozenAfterStartup ==
    /\ [][commands' # commands =>
            (mainPc = "importCommand" /\ clientState = "new" /\ "login" \notin begun
               /\ listeners = {} /\ ~Dispatched)]_vars
    /\ [](Dispatched =>
            /\ "commands" \in finished
            /\ mainPc \notin {"start", "startWorker", "readdirCommands", "importCommand"})
    /\ []("login" \in begun => "commands" \in finished)
    /\ [][("login" \in begun \/ Dispatched \/ req' # req) => commands' = commands]_vars

\* C26 witness: shutdown has run to the end after a slash command was
\* dispatched and answered, and the registry is the one startup populated
C26_Witness ==
    /\ procState = "exited" /\ exitBy = "shutdown" /\ destroyCalls = 1
    /\ Slash(1) /\ Over(1) /\ req[1].invoked # {}
    /\ RegisteredCommands = {cmdFiles[i].name : i \in DOMAIN cmdFiles} \ {NoName}
    /\ RegisteredCommands # {}

----------------------------------------------------------------------------
(* Mention claims *)

\* the message.reply calls of request r that the transport delivered
PrimaryReplies(r) ==
    {i \in Sends(r) : SendAt(r, i).op = "messageReply" /\ SendAt(r, i).ok}

\* C27 (as claimed): a mention gets at most one delivered message.reply,
\* whichever way the handler goes, also when the answer was delivered as the
\* reply and a follow-up chunk was rejected afterwards.
C27_OnePrimaryReply ==
    \A r \in ReqIds :
        req[r].kind = "message" => Cardinality(PrimaryReplies(r)) <= 1

\* every guard of the mention handler lets the message through
Passes(m, qm) ==
    ~m.bot /\ m.me /\ m.mentioned /\ m.question /\ qm /\ m.canSend

Mention(r) == req[r].kind = "message"

\* C28: a mention submits a job only when the author is no bot, client.user is
\* set, the bot is mentioned, the question is not empty, a queue manager is
\* attached and the channel can send.  Any other message leaves no job, no
\* queue call, no typing indicator, no typing timer and so no call of the
\* timer, and gets at most one
\* delivered reply; a message from a bot, without client.user or without
\* mention gets no reply at all.
C28_MentionGuards ==
    \A r \in ReqIds :
        Mention(r) =>
            /\ (req[r].job # 0 \/ req[r].calls # << >> \/ req[r].typer \/ JobsOf(r) # {})
                  => Passes(req[r].msg, queueManager)
            /\ ~Passes(req[r].msg, queueManager) =>
                  /\ req[r].k \in {"mEarlyReply", "mCatch", "done"}
                  /\ req[r].pend.op \in {"none", "messageReply"}
                  /\ \A i \in Sends(r) : SendAt(r, i).op = "messageReply"
                  /\ Cardinality(PrimaryReplies(r)) <= 1
                  /\ req[r].beat = 0
            /\ (req[r].msg.bot \/ ~req[r].msg.me \/ ~req[r].msg.mentioned) =>
                  /\ Over(r) /\ req[r].sent = << >>
            /\ (Passes(req[r].msg, queueManager) /\ Over(r) /\ req[r].fails = 0) =>
                  /\ CallsOf(r, "addJob") = 1
                  /\ \E i \in Sends(r) : SendAt(r, i).op = "sendTyping"

\* C28 witness: a mention without question was told to provide one, and a
\* message of a bot that mentions the bot with a question was left alone;
\* neither has a job, and the queue is there
C28_Witness ==
    \E r1, r2 \in ReqIds :
        /\ queueManager /\ jobs = << >>
        /\ Mention(r1) /\ Over(r1) /\ req[r1].msg = Message(FALSE, TRUE, TRUE, FALSE, TRUE)
        /\ Len(req[r1].sent) = 1
        /\ SendAt(r1, 1).what = MsgNeedQuestion /\ SendAt(r1, 1).ok
        /\ Mention(r2) /\ Over(r2) /\ req[r2].msg = Message(TRUE, TRUE, TRUE, TRUE, TRUE)
        /\ req[r2].sent = << >>

----------------------------------------------------------------------------
(* Exit status and shutdown triggers *)

\* the status the trigger passes to shutdown: 0 for a signal, 1 for an
\* uncaught exception
CodeOf(trigger) == IF trigger \in Signals THEN 0 ELSE 1

\* C29 (as claimed): when a signal and an uncaught exception have both
\* occurred and shutdown was called, the process exits with the status of the
\* trigger that called shutdown first, and no later trigger changes the
\* trigger and status shutdown recorded.
C29_FirstTriggerFixesStatus ==
    /\ (isShuttingDown /\ uncaughtSent > 0 /\ \E s \in Signals : sigSent[s] > 0) =>
          /\ shutCode = CodeOf(shutTrigger)
          /\ procState = "exited" => exitCode = CodeOf(shutTrigger)

----------------------------------------------------------------------------
(* Two listeners of one event, and the typing timer *)

\* both dispatchers ran /ask on the one interaction: the first invocation's
\* deferReply was delivered and it awaits addJob; the second invocation's
\* deferReply was rejected, and its catch block edits the reply
TwinAskReached ==
    /\ req[1].cmd = "ask" /\ req[1].invoked = {"ask2.ts"}
    /\ req[1].pend.op = "addJob" /\ req[1].deferred /\ ~req[1].replied
    /\ Len(req[1].sent) = 2
    /\ SendAt(1, 1).op = "deferReply" /\ SendAt(1, 1).ok
    /\ SendAt(1, 2).op = "deferReply" /\ ~SendAt(1, 2).ok
    /\ req[1].thrown = {TransportError(FALSE).kind} /\ req[1].fails = 1
    /\ req[1].calls = << "addJob" >>
    /\ req[1].twin.pend.op = "editReply" /\ req[1].twin.pend.what = MsgProcessing

\* both dispatchers ran /help: two replies were delivered
TwinHelpReached ==
    /\ req[1].cmd = "help" /\ Over(1) /\ req[1].twin.k = "done"
    /\ Len(req[1].sent) = 2
    /\ \A i \in Sends(1) : SendAt(1, i).op = "reply" /\ SendAt(1, i).ok

\* the timer of a mention ticked while the handler awaits its job
HeartbeatReached ==
    \E r \in ReqIds :
        /\ Mention(r) /\ req[r].pend.op = "wait" /\ req[r].typer
        /\ Len(req[r].sent) = 1 /\ req[r].beat = 1

----------------------------------------------------------------------------
(* The first turn of main(), and requests during startup *)

\* the queue set-up threw in the first turn of main(): startWorker was never
\* called, and main is suspended at the readdir of loadCommands
SetupThrowReached ==
    /\ Running /\ mainPc = "readdirCommands" /\ ~queueManager
    /\ begun = {"commands"} /\ finished = {"worker"}

\* a signal in that state finds no listener and kills the process
SetupThrowKilledReached ==
    /\ procState = "killed" /\ exitBy = "signal" /\ mainPc = "readdirCommands"
    /\ begun = {"commands"} /\ finished = {"worker"}

\* the client emitted /help while the event loader was still importing, the
\* dispatcher being registered: help.ts runs and calls reply
LoadingDispatchReached ==
    /\ Running /\ mainPc = "importEvent" /\ loadIdx = Len(evFiles)
    /\ Slash(1) /\ req[1].cmd = "help" /\ req[1].invoked = {"help.ts"}
    /\ req[1].pend.op = "reply" /\ req[1].sent = << >>
    /\ ~req[1].deferred /\ ~req[1].replied

\* a listener's promise rejected before main reached index.ts 194: there is
\* no listener of unhandledRejection yet, and the runtime ends the process
EarlyRejectionReached ==
    /\ procState = "exited" /\ exitBy = "unhandledRejection" /\ exitCode = 1
    /\ ~unhandledOn /\ "login" \notin begun
    /\ \E r \in ReqIds : req[r].rejected

\* the same while login is awaited and the client is not ready
LoginDispatchReached ==
    /\ Running /\ mainPc = "login" /\ clientState = "connecting" /\ readyCount = 0
    /\ Slash(1) /\ req[1].cmd = "help" /\ req[1].invoked = {"help.ts"}
    /\ req[1].pend.op = "reply" /\ req[1].sent = << >>

============================================================================
